---- MODULE Spec2Model ----
(***************************************************************************)
(* A model of the n8n-porter migration engine (src/main.py): the           *)
(* dependency graph builder, the creation-order resolver, the workflow     *)
(* rewrite, the resource ledger (resource_mapping.json) and the restore    *)
(* and cleanup operations driven from main().                              *)
(*                                                                         *)
(* Python dicts are ordered maps: a dict is modelled as a sequence of      *)
(* entries with distinct keys, in insertion order, wherever the code       *)
(* iterates over it.                                                       *)
(***************************************************************************)
EXTENDS Integers, Sequences, FiniteSets, TLC

(***************************************************************************)
(* Bounds of the model.                                                    *)
(***************************************************************************)
\* Longest dependency list of one graph entry drawn for the order resolver.
MaxDeps == 2
\* Restore operations one run of main() performs.
MaxRestores == 1

(***************************************************************************)
(* Sequence helpers.                                                       *)
(***************************************************************************)
Range(s) == {s[i] : i \in 1..Len(s)}

SeqsUpTo(S, n) == UNION {[1..k -> S] : k \in 0..n}

(***************************************************************************)
(* Workflow definitions, as loaded from a backup.                          *)
(* A workflow is [id, name, nodes]; a name is the sequence of its          *)
(* space-separated tokens.  A node is [type, workflowId]; workflowId is    *)
(* the value of node['parameters']['workflowId']:                          *)
(*   [kind |-> "none"]                         no such parameter           *)
(*   [kind |-> "str", value |-> id]            a bare string identifier    *)
(*   [kind |-> "dict", value |-> id, cachedResultName |-> name]            *)
(* A node may carry the credential it uses, and a workflow file may lack   *)
(* a key.                                                                  *)
(***************************************************************************)
ExecuteWorkflow == "n8n-nodes-base.executeWorkflow"
ToolWorkflow == "@n8n/n8n-nodes-langchain.toolWorkflow"
OtherNode == "n8n-nodes-base.set"

NoRef == [kind |-> "none"]
StrRef(id) == [kind |-> "str", value |-> id]
DictRef(id, cached) == [kind |-> "dict", value |-> id, cachedResultName |-> cached]

Node(type, ref) == [type |-> type, workflowId |-> ref]

\* A node that uses a credential: node['credentials'] = {type: {id, name}}.
CredentialNode(name) ==
    [type |-> OtherNode, workflowId |-> NoRef,
     credentials |-> [id |-> "old", name |-> name]]

Workflow(id, name, nodes) ==
    [id |-> id, name |-> name, nodes |-> nodes, connections |-> <<>>]

(***************************************************************************)
(* analyze_workflow_dependencies: the identifiers the workflow's invoking  *)
(* nodes reference, in node order.  An executeWorkflow node contributes a  *)
(* string or the value of a dict; a toolWorkflow node only the value of a  *)
(* dict; an empty value contributes nothing.                               *)
(***************************************************************************)
node_dependencies(node) ==
    IF node.type = ExecuteWorkflow
    THEN IF node.workflowId.kind = "str" THEN <<node.workflowId.value>>
         ELSE IF node.workflowId.kind = "dict" /\ node.workflowId.value # ""
              THEN <<node.workflowId.value>>
              ELSE <<>>
    ELSE IF node.type = ToolWorkflow
         THEN IF node.workflowId.kind = "dict" /\ node.workflowId.value # ""
              THEN <<node.workflowId.value>>
              ELSE <<>>
         ELSE <<>>

RECURSIVE nodes_dependencies(_)
nodes_dependencies(nodes) ==
    IF nodes = <<>> THEN <<>>
    ELSE node_dependencies(Head(nodes)) \o nodes_dependencies(Tail(nodes))

analyze_workflow_dependencies(workflow) ==
    IF "nodes" \notin DOMAIN workflow THEN <<>>
    ELSE nodes_dependencies(workflow.nodes)

(***************************************************************************)
(* build_dependency_graph: one entry per workflow, in the order of the     *)
(* workflow list.  The graph is a dict id -> list of ids, modelled as the  *)
(* sequence of its entries [id, deps].                                     *)
(***************************************************************************)
build_dependency_graph(wfs) ==
    [i \in 1..Len(wfs) |->
        [id |-> wfs[i].id, deps |-> analyze_workflow_dependencies(wfs[i])]]

Keys(graph) == {graph[i].id : i \in 1..Len(graph)}

KeySeq(graph) == [i \in 1..Len(graph) |-> graph[i].id]

DepsOf(graph, id) ==
    LET i == CHOOSE j \in 1..Len(graph) : graph[j].id = id
    IN  Range(graph[i].deps)

(***************************************************************************)
(* get_workflow_order: rounds of peeling.  ready is the list of the        *)
(* remaining entries none of whose dependencies is a remaining key, in the *)
(* order of remaining; an empty ready with entries remaining raises        *)
(* ValueError.  The result is [order |-> ...] for a return and             *)
(* [raised |-> ...] for the exception (which carries no order).            *)
(***************************************************************************)
\* As IsReady, looking at the first dependency only.
IsReadyFirstDependency(entry, remaining) ==
    entry.deps = <<>> \/ entry.deps[1] \notin Keys(remaining)

\* As IsReady, asking for an empty dependency list.
IsReadyNoDependencies(entry, remaining) == entry.deps = <<>>

IsReady(entry, remaining) ==
    ~ \E k \in 1..Len(entry.deps) : entry.deps[k] \in Keys(remaining)

\* As ReadyOf, the ready keys in the reverse of their insertion order.
ReadyOfReversed(remaining) ==
    LET ready == KeySeq(SelectSeq(remaining, LAMBDA e : IsReady(e, remaining)))
    IN  [i \in 1..Len(ready) |-> ready[Len(ready) + 1 - i]]

ReadyOf(remaining) ==
    KeySeq(SelectSeq(remaining, LAMBDA e : IsReady(e, remaining)))

CircularDependency == [raised |-> "Circular dependency detected in workflows"]

Returned(order) == [order |-> order]

\* As PeelRounds, leaving the loop with what it has when nothing is ready.
RECURSIVE PeelRoundsPartial(_, _)
PeelRoundsPartial(remaining, order) ==
    IF remaining = <<>> THEN Returned(order)
    ELSE LET ready == ReadyOf(remaining)
         IN  IF ready = <<>> THEN Returned(order)
             ELSE PeelRoundsPartial(
                    SelectSeq(remaining, LAMBDA e : e.id \notin Range(ready)),
                    order \o ready)

RECURSIVE PeelRounds(_, _)
PeelRounds(remaining, order) ==
    IF remaining = <<>> THEN Returned(order)
    ELSE LET ready == ReadyOf(remaining)
         IN  IF ready = <<>> THEN CircularDependency
             ELSE PeelRounds(
                    SelectSeq(remaining, LAMBDA e : e.id \notin Range(ready)),
                    order \o ready)

\* As get_workflow_order, returning after the first round.
get_workflow_order_one_round(graph) == Returned(ReadyOf(graph))

\* As get_workflow_order, giving the keys in their insertion order.
get_workflow_order_unsorted(graph) == Returned(KeySeq(graph))

get_workflow_order(graph) == PeelRounds(graph, <<>>)

(***************************************************************************)
(* Ordered dicts id -> name, as the ledger's sub-maps are.                 *)
(***************************************************************************)
DictKeys(d) == {d[i].id : i \in 1..Len(d)}

DictSet(d, id, name) ==
    IF id \in DictKeys(d)
    THEN [i \in 1..Len(d) |-> IF d[i].id = id THEN [id |-> id, name |-> name] ELSE d[i]]
    ELSE Append(d, [id |-> id, name |-> name])

DictDel(d, id) == SelectSeq(d, LAMBDA e : e.id # id)

(***************************************************************************)
(* The resource ledger, resource_mapping.json: instance url ->             *)
(* {workflows, credentials, projects}, each an ordered dict id -> name.    *)
(* The document is a function on the urls it has an entry for.             *)
(***************************************************************************)
ResourceTypes == {"workflows", "credentials", "projects"}

EmptyResources == [workflows |-> <<>>, credentials |-> <<>>, projects |-> <<>>]

EmptyLedger == [u \in {} |-> EmptyResources]

\* As save_resource_mapping, the entry written into the 'projects' sub-map.
save_resource_mapping_as_project(mappings, instance_url, resource_type, resource_id, resource_name) ==
    LET entry == IF instance_url \in DOMAIN mappings
                 THEN mappings[instance_url] ELSE EmptyResources
    IN  [u \in DOMAIN mappings \cup {instance_url} |->
            IF u = instance_url
            THEN [entry EXCEPT !.projects = DictSet(@, resource_id, resource_name)]
            ELSE mappings[u]]

\* As save_resource_mapping, writing the entry of every instance.
save_resource_mapping_everywhere(mappings, instance_url, resource_type, resource_id, resource_name) ==
    [u \in DOMAIN mappings \cup {instance_url} |->
        LET entry == IF u \in DOMAIN mappings THEN mappings[u] ELSE EmptyResources
        IN  [entry EXCEPT ![resource_type] =
                DictSet(entry[resource_type], resource_id, resource_name)]]

save_resource_mapping(mappings, instance_url, resource_type, resource_id, resource_name) ==
    LET entry == IF instance_url \in DOMAIN mappings
                 THEN mappings[instance_url] ELSE EmptyResources
    IN  [u \in DOMAIN mappings \cup {instance_url} |->
            IF u = instance_url
            THEN [entry EXCEPT ![resource_type] =
                     DictSet(entry[resource_type], resource_id, resource_name)]
            ELSE mappings[u]]

\* As remove_resource_mapping, deleting the id under every type.
remove_resource_mapping_any_type(mappings, instance_url, resource_type, resource_id) ==
    IF /\ instance_url \in DOMAIN mappings
       /\ resource_id \in DictKeys(mappings[instance_url][resource_type])
    THEN [mappings EXCEPT ![instance_url] =
            [t \in ResourceTypes |-> DictDel(mappings[instance_url][t], resource_id)]]
    ELSE mappings

remove_resource_mapping(mappings, instance_url, resource_type, resource_id) ==
    IF /\ instance_url \in DOMAIN mappings
       /\ resource_id \in DictKeys(mappings[instance_url][resource_type])
    THEN [mappings EXCEPT ![instance_url][resource_type] = DictDel(@, resource_id)]
    ELSE mappings

\* As get_instance_resources, reading the entry of any instance.
get_instance_resources_any(mappings, instance_url) ==
    IF DOMAIN mappings = {} THEN EmptyResources
    ELSE mappings[CHOOSE u \in DOMAIN mappings : TRUE]

get_instance_resources(mappings, instance_url) ==
    IF instance_url \in DOMAIN mappings THEN mappings[instance_url] ELSE EmptyResources

(***************************************************************************)
(* The checks the code makes on the status of a reply.                     *)
(***************************************************************************)
\* create_credential: response.status_code == 200
CredentialCreated(status) == status = 200

\* As TransferOk, without looking at the status.
TransferUnchecked(status) == TRUE

\* create_workflow: not (transfer_response.status_code not in [200, 204])
TransferOk(status) == status \in {200, 204}

\* As DeleteOk, without looking at the status.
DeleteUnchecked(status) == TRUE

\* delete_workflow, delete_credential, delete_project: not (status_code != 200)
DeleteOk(status) == status = 200

(***************************************************************************)
(* The sub-workflow remap of create_workflow.  sf_id_mapping is a function *)
(* old id -> new id; an empty mapping is falsy and disables the remap.     *)
(* cachedResultName.split(' ')[0] keeps the first token of the name.       *)
(***************************************************************************)
remap_dict(ref, sf_id_mapping) ==
    IF ref.value # "" /\ ref.value \in DOMAIN sf_id_mapping
    THEN [ref EXCEPT !.value = sf_id_mapping[ref.value],
                     !.cachedResultName = (IF (@) = <<>> THEN <<>> ELSE <<Head((@))>>)]
    ELSE ref

\* As remap_node, taking the new id of any workflow created so far.
remap_node_any(node, sf_id_mapping) ==
    IF node_dependencies(node) # <<>> /\ DOMAIN sf_id_mapping # {}
    THEN [node EXCEPT !.workflowId.value =
             sf_id_mapping[CHOOSE k \in DOMAIN sf_id_mapping : TRUE]]
    ELSE node

remap_node(node, sf_id_mapping) ==
    IF node.type = ExecuteWorkflow /\ DOMAIN sf_id_mapping # {}
    THEN IF node.workflowId.kind = "str" /\ node.workflowId.value \in DOMAIN sf_id_mapping
         THEN [node EXCEPT !.workflowId.value = sf_id_mapping[@]]
         ELSE IF node.workflowId.kind = "dict"
              THEN [node EXCEPT !.workflowId = remap_dict(@, sf_id_mapping)]
              ELSE node
    ELSE IF node.type = ToolWorkflow /\ DOMAIN sf_id_mapping # {}
         THEN IF node.workflowId.kind = "dict"
              THEN [node EXCEPT !.workflowId = remap_dict(@, sf_id_mapping)]
              ELSE node
         ELSE node

(***************************************************************************)
(* The words this model's names and keys are made of.  str.lower() and     *)
(* str.replace('_', ' ') are given by what they do to each of them: a      *)
(* token with underscores becomes the sequence of its parts.               *)
(***************************************************************************)
LowerToken(token) ==
    CASE token = "Slack" -> "slack"
      [] token = "Token" -> "token"
      [] token = "Bot" -> "bot"
      [] token = "My" -> "my"
      [] token = "Postgres" -> "postgres"
      [] token = "MySQL" -> "mysql"
      [] token = "DB" -> "db"
      [] token = "GitHub" -> "github"
      [] token = "Prod" -> "prod"
      [] token = "Dev" -> "dev"
      [] OTHER -> token

LowerWords(words) == [i \in 1..Len(words) |-> LowerToken(words[i])]

\* create_workflow: the test of one key of credential_mapping against the
\* name a node declares.
credential_matches(cred_key, old_name) ==
    LET \* s.split(' ')[0] if ' ' in s else s
        base_name(name) == IF name = <<>> THEN "" ELSE Head(name)
        cred_base_name == base_name(cred_key)
    IN  \/ LowerToken(cred_base_name) = LowerToken(base_name(old_name))
        \/ LowerWords((
                       CASE cred_base_name = "slack_token" -> << "slack", "token" >>
                         [] cred_base_name = "slack_bot" -> << "slack", "bot" >>
                         [] cred_base_name = "my_postgres_db" -> << "my", "postgres", "db" >>
                         [] cred_base_name = "my_mysql" -> << "my", "mysql" >>
                         [] OTHER -> << cred_base_name >>
                       )) = << LowerToken(base_name(old_name)) >>

\* create_workflow: the id of the first entry of credential_mapping that
\* matches, "None" when none does.
matching_cred(old_name, credential_mapping) ==
    LET hits == {i \in 1..Len(credential_mapping) :
                    credential_matches(credential_mapping[i].key, old_name)}
    IN  IF hits = {} THEN "None"
        ELSE credential_mapping[CHOOSE i \in hits : \A j \in hits : i <= j].id

resolve_credentials(node, credential_mapping) ==
    IF "credentials" \in DOMAIN node
    THEN LET found == matching_cred(node.credentials.name, credential_mapping)
         IN  IF found # "None" THEN [node EXCEPT !.credentials.id = found] ELSE node
    ELSE node

(***************************************************************************)
(* get_environment_replacements.  credentials.yaml names replacement       *)
(* groups, each an ordered dict environment -> value; for the target       *)
(* environment every other environment's value of a group that has a       *)
(* value for the target becomes a source literal.  The table is an ordered *)
(* dict, the sequence of its entries [old, new].                           *)
(***************************************************************************)
PutReplacement(replacements, old, new) ==
    IF \E i \in 1..Len(replacements) : replacements[i].old = old
    THEN [i \in 1..Len(replacements) |->
             IF replacements[i].old = old THEN [old |-> old, new |-> new]
             ELSE replacements[i]]
    ELSE Append(replacements, [old |-> old, new |-> new])

ValueOf(values, env) ==
    values[CHOOSE i \in 1..Len(values) : values[i].env = env].value

RECURSIVE group_replacements(_, _, _, _)
group_replacements(replacements, values, k, env_type) ==
    IF k > Len(values) THEN replacements
    ELSE group_replacements(
            IF values[k].env # env_type
            THEN PutReplacement(replacements, values[k].value,
                                ValueOf(values, env_type))
            ELSE replacements,
            values, k + 1, env_type)

RECURSIVE groups_replacements(_, _, _)
groups_replacements(replacements, groups, env_type) ==
    LET HasValue(values, env) == \E i \in 1..Len(values) : values[i].env = env
    IN
    IF groups = <<>> THEN replacements
    ELSE groups_replacements(
            IF HasValue(Head(groups).values, env_type)
            THEN group_replacements(replacements, Head(groups).values, 1, env_type)
            ELSE replacements,
            Tail(groups), env_type)

get_environment_replacements(config, env_type) ==
    groups_replacements(<<>>, config.replacements, env_type)

(***************************************************************************)
(* The literal replacement of create_workflow: str.replace of every pair   *)
(* of the table, in the order of the table, on the serialized workflow.    *)
(* A text is the sequence of the pieces it is made of, cut so that every   *)
(* occurrence of a literal of the table is a piece of its own; str.replace *)
(* looks at no boundary, so a piece is replaced wherever it stands.        *)
(***************************************************************************)
RECURSIVE ReplaceIn(_, _)
ReplaceIn(piece, replacements) ==
    IF replacements = <<>> THEN piece
    ELSE ReplaceIn(IF piece = Head(replacements).old
                   THEN Head(replacements).new ELSE piece,
                   Tail(replacements))

replace_text(text, replacements) ==
    [i \in 1..Len(text) |-> ReplaceIn(text[i], replacements)]

replace_ref(ref, replacements) ==
    IF ref.kind = "str" THEN [ref EXCEPT !.value = ReplaceIn(@, replacements)]
    ELSE IF ref.kind = "dict"
         THEN [ref EXCEPT !.value = ReplaceIn(@, replacements),
                          !.cachedResultName = replace_text(@, replacements)]
         ELSE ref

replace_node(node, replacements) ==
    [k \in DOMAIN node |->
        IF k = "workflowId" THEN replace_ref(node.workflowId, replacements)
        ELSE IF k = "url" THEN replace_text(node.url, replacements)
        ELSE IF k = "credentials"
             THEN [node.credentials EXCEPT !.name = replace_text(@, replacements)]
             ELSE node[k]]

replace_settings(settings, replacements) ==
    [k \in DOMAIN settings |->
        IF k \in {"saveDataErrorExecution", "errorWorkflow"}
        THEN ReplaceIn(settings[k], replacements)
        ELSE settings[k]]

\* json.loads(json.dumps(workflow_payload) with the replacements made).
replace_literals(workflow_payload, replacements) ==
    [k \in DOMAIN workflow_payload |->
        IF k = "name" THEN replace_text(workflow_payload.name, replacements)
        ELSE IF k = "nodes"
             THEN [i \in 1..Len(workflow_payload.nodes) |->
                      replace_node(workflow_payload.nodes[i], replacements)]
        ELSE IF k = "settings"
             THEN replace_settings(workflow_payload.settings, replacements)
             ELSE workflow_payload[k]]

(***************************************************************************)
(* The settings create_workflow submits: the five fields, each with the    *)
(* value the workflow gives it or else with its default.                   *)
(***************************************************************************)
DefaultSettings ==
    [saveExecutionProgress |-> TRUE,
     saveManualExecutions |-> TRUE,
     saveDataErrorExecution |-> "all",
     executionTimeout |-> 3600,
     errorWorkflow |-> ""]

\* As normalized_settings, the other fields of the workflow's settings kept.
normalized_settings_merged(workflow_payload) ==
    LET settings == IF "settings" \in DOMAIN workflow_payload
                    THEN workflow_payload.settings ELSE <<>>
    IN  [k \in DOMAIN DefaultSettings \cup DOMAIN settings |->
            IF k \in DOMAIN settings THEN settings[k] ELSE DefaultSettings[k]]

\* As normalized_settings, every field given its default.
normalized_settings_reset(workflow_payload) == DefaultSettings

normalized_settings(workflow_payload) ==
    LET settings == IF "settings" \in DOMAIN workflow_payload
                    THEN workflow_payload.settings ELSE <<>>
    IN  [k \in DOMAIN DefaultSettings |->
            IF k \in DOMAIN settings THEN settings[k] ELSE DefaultSettings[k]]

\* The payload create_workflow posts (the fields this model carries).
create_payload(workflow_data, credential_mapping, sf_id_mapping, replacements) ==
    LET workflow_payload == replace_literals(workflow_data, replacements)
    IN  [name |-> workflow_payload.name,
         nodes |-> [i \in 1..Len(workflow_payload.nodes) |->
                       remap_node(resolve_credentials(workflow_payload.nodes[i],
                                                      credential_mapping),
                                  sf_id_mapping)],
         connections |-> workflow_payload.connections,
         settings |-> normalized_settings(workflow_payload)]

(***************************************************************************)
(* servers.yaml: two instances, one with project support.                  *)
(***************************************************************************)
ServerNames == {"cloud", "local"}

Servers ==
    [n \in ServerNames |->
        IF n = "cloud"
        THEN [url |-> "https://cloud.example", supports_projects |-> TRUE]
        ELSE [url |-> "http://localhost:5678", supports_projects |-> FALSE]]

Urls == {Servers[n].url : n \in ServerNames}

NoProject == [id |-> "None", name |-> <<"default">>]

\* The project of an instance: the one listed remotely, or the default one.
ProjectOf(n) ==
    IF Servers[n].supports_projects
    THEN [id |-> "p1", name |-> <<"Main">>]
    ELSE NoProject

(***************************************************************************)
(* credentials.yaml: the environments main() offers, each with a postfix   *)
(* and an ordered dict of credential declarations.  Keys and names are    *)
(* sequences of space-separated tokens.                                    *)
(***************************************************************************)
Environments == {"production", "development"}

CredsConfig ==
    [environments |->
       [e \in Environments |->
           IF e = "production"
           THEN [postfix |-> "Prod",
                 credentials |->
                   << [key |-> <<"slack_token">>, name |-> <<"Slack", "Token">>, type |-> "slackApi"] >>]
           ELSE [postfix |-> "Dev",
                 credentials |->
                   << [key |-> <<"slack_token">>, name |-> <<"Slack", "Token">>, type |-> "slackApi"],
                      [key |-> <<"my_postgres_db">>, name |-> <<"My", "Postgres", "DB">>,
                       type |-> "postgres"] >>]],
     replacements |-> <<>>]

\* As credential_name, the declared name kept whole.
credential_name_appended(declared, env_postfix) ==
    IF env_postfix # "" THEN Append(declared, env_postfix) ELSE declared

\* create_credential: the name it posts.
credential_name(declared, env_postfix) ==
    LET name == IF Len(declared) > 1 /\ declared[Len(declared)] \in (
                                                                     {CredsConfig.environments[e].postfix : e \in Environments}
                                                                     )
                THEN SubSeq(declared, 1, Len(declared) - 1)
                ELSE declared
    IN  IF env_postfix # "" THEN Append(name, env_postfix) ELSE name

(***************************************************************************)
(* The backups on disk that a restore can choose from.                     *)
(***************************************************************************)
\* W2 invokes W1 through a tool node.
ToolBackup ==
    << Workflow("W1", <<"Alpha">>, <<Node(OtherNode, NoRef)>>),
       Workflow("W2", <<"Beta">>, <<Node(ToolWorkflow, DictRef("W1", <<"Alpha", "Prod">>))>>) >>

Backups ==
    LET \* W1 invokes W2, which is listed after it.
        ChainBackup ==
            << Workflow("W1", <<"Alpha">>, <<Node(ExecuteWorkflow, StrRef("W2")),
                                             Node(OtherNode, NoRef)>>),
               Workflow("W2", <<"Beta">>, <<Node(ExecuteWorkflow, DictRef("X9", <<"Elsewhere">>))>>) >>
        \* W1 invokes W2, W2 invokes W3, W3 invokes W1.
        CycleBackup ==
            << Workflow("W1", <<"Alpha">>, <<Node(ExecuteWorkflow, StrRef("W2"))>>),
               Workflow("W2", <<"Beta">>, <<Node(ExecuteWorkflow, DictRef("W3", <<"Gamma">>))>>),
               Workflow("W3", <<"Gamma">>, <<Node(ToolWorkflow, DictRef("W1", <<"Alpha">>))>>) >>
        \* W2 invokes itself; W1 invokes nothing.
        SelfBackup ==
            << Workflow("W1", <<"Alpha">>, <<Node(OtherNode, NoRef)>>),
               Workflow("W2", <<"Beta">>, <<Node(ExecuteWorkflow, StrRef("W2"))>>) >>
        \* W1 invokes W2 and W3, W2 invokes W3: the creation order is W3, W2, W1.
        DiamondBackup ==
            << Workflow("W1", <<"Alpha">>, <<Node(ExecuteWorkflow, DictRef("W2", <<"Beta", "Prod">>)),
                                             Node(ToolWorkflow, DictRef("W3", <<"Gamma">>))>>),
               Workflow("W2", <<"Beta">>, <<Node(ExecuteWorkflow, StrRef("W3"))>>),
               Workflow("W3", <<"Gamma">>, <<Node(ToolWorkflow, StrRef("W1"))>>) >>
    IN     {ChainBackup, ToolBackup, CycleBackup, SelfBackup, DiamondBackup}

(***************************************************************************)
(* The remote instances.  A reply carries an HTTP status; the remote has   *)
(* carried the request out exactly when the status is 2xx.                 *)
(***************************************************************************)
Is2xx(status) == status \in 200..299

DeleteStatuses(present) == IF present THEN {200, 500} ELSE {404}

\* The id a remote instance gives the resource it creates for `key` in
\* restore number `run`.
NewId(run, key) == <<run, key>>

\* Resources that exist on the instances without this tool having made them.
ManualId == <<0, "manual">>

InitRemote ==
    [u \in Urls |->
        [workflows |-> {[id |-> ManualId, name |-> <<"Alpha">>]},
         credentials |-> {[id |-> ManualId, name |-> <<"Slack", "Token", "Dev">>]},
         projects |-> {[id |-> ProjectOf(n).id, name |-> ProjectOf(n).name] :
                          n \in {m \in ServerNames : /\ Servers[m].url = u
                                                     /\ Servers[m].supports_projects}}]]

RemoteIds(r, u, type) == {x.id : x \in r[u][type]}

RemoteAdd(r, u, type, id, name) ==
    [r EXCEPT ![u][type] = @ \cup {[id |-> id, name |-> name]}]

RemoteRemove(r, u, type, id) ==
    [r EXCEPT ![u][type] = {x \in @ : x.id # id}]

\* A request of the tool: source and payload are the old workflow id and the
\* body of a POST of a workflow.
Request(method, u, type, id, status) ==
    LET NoPayload == [name |-> <<>>, nodes |-> <<>>, connections |-> <<>>,
                      settings |-> DefaultSettings]
    IN
    [method |-> method, url |-> u, type |-> type, id |-> id, status |-> status,
     source |-> "", payload |-> NoPayload]

\* The remote after it has answered the request.
RemoteAfter(r, req, name) ==
    IF ~Is2xx(req.status) THEN r
    ELSE IF req.method = "POST" THEN RemoteAdd(r, req.url, req.type, req.id, name)
    ELSE IF req.method = "DELETE" THEN RemoteRemove(r, req.url, req.type, req.id)
    ELSE r

(***************************************************************************)
(* State.                                                                  *)
(***************************************************************************)
VARIABLES
    pc,                 \* where main() and the running operation stand
    server,             \* the selected server's name
    project,            \* the selected project
    target_env,         \* restore: the target environment
    creds_config,       \* restore: credentials.yaml as loaded
    restores,           \* restores started by this run of main()
    ledger,             \* resource_mapping.json
    remote,             \* the resources on each remote instance
    workflows,          \* restore: the workflows loaded from the backup
    credential_mapping, \* restore: ordered dict credential key or name -> new id
    dependency_graph,   \* restore: build_dependency_graph(workflows)
    order_result,       \* restore: what get_workflow_order gave
    workflow_mapping,   \* restore: old workflow id -> new workflow id
    idx,                \* the loop index of the running loop
    stats,              \* the counters of the running operation
    resources,          \* cleanup: get_instance_resources(base_url), read once
    requests,           \* the remote requests the last step issued, in order
    outcome,            \* the closing message of the last operation that returned
    store,              \* the ledger call in progress, when followed step by step
    confirm,            \* cleanup: the answer typed at the prompt, when followed
    choice,             \* main(): the operation chosen at the menu, when followed
    backup_files        \* the workflow files of the backup directories written

vars == << pc, server, project, target_env, creds_config, restores, ledger, remote, workflows,
           credential_mapping, dependency_graph, order_result, workflow_mapping,
           idx, stats, resources, requests, outcome, store, confirm,
           choice, backup_files >>

selection == << server, project, target_env, outcome >>

restore_locals == << creds_config, workflows, credential_mapping, dependency_graph,
                     order_result, workflow_mapping >>

base_url == Servers[server].url

supports_projects == Servers[server].supports_projects

NoStats == [workflows_created |-> 0, workflows_failed |-> 0,
            credentials_created |-> 0, credentials_failed |-> 0]

NoOrder == [none |-> TRUE]

\* credentials.yaml is not loaded.
NoConfig == [environments |-> [e \in {} |-> [postfix |-> "", credentials |-> <<>>]],
             replacements |-> <<>>]

\* No ledger call is in progress and resource_mapping.json parses.
IdleStore == [step |-> "idle", torn |-> FALSE, recorded |-> {},
              done |-> [op |-> "none"]]

EmptyMapping == [k \in {} |-> ManualId]

\* Back at the menu of main(): the locals of the iteration are gone.
OperationReturned ==
    /\ server' = "none"
    /\ project' = NoProject
    /\ target_env' = "none"
    /\ creds_config' = NoConfig
    /\ workflows' = <<>>
    /\ credential_mapping' = <<>>
    /\ dependency_graph' = <<>>
    /\ order_result' = NoOrder
    /\ workflow_mapping' = EmptyMapping
    /\ idx' = 0
    /\ stats' = NoStats
    /\ resources' = EmptyResources

Idle ==
    /\ server = "none"
    /\ project = NoProject
    /\ target_env = "none"
    /\ creds_config = NoConfig
    /\ restores = 0
    /\ ledger = EmptyLedger
    /\ remote = InitRemote
    /\ workflows = <<>>
    /\ credential_mapping = <<>>
    /\ workflow_mapping = EmptyMapping
    /\ idx = 0
    /\ stats = NoStats
    /\ resources = EmptyResources
    /\ requests = <<>>
    /\ outcome = ""
    /\ store = IdleStore
    /\ confirm = ""
    /\ choice = ""
    /\ backup_files = {}

Init ==
    /\ pc = "menu"
    /\ dependency_graph = <<>>
    /\ order_result = NoOrder
    /\ Idle

(***************************************************************************)
(* main(), choice '2', up to the credential loop of perform_restore: a     *)
(* server, its project, the target environment and a backup are chosen.    *)
(***************************************************************************)
StartRestoreOn(names, configs, backups) ==
    /\ \E n \in names, e \in Environments, c \in configs, b \in backups :
          /\ server' = n
          /\ project' = ProjectOf(n)
          /\ target_env' = e
          /\ creds_config' = c
          /\ workflows' = b
    /\ outcome' = ""
    /\ restores' = restores + 1
    /\ credential_mapping' = <<>>
    /\ workflow_mapping' = EmptyMapping
    /\ dependency_graph' = <<>>
    /\ order_result' = NoOrder
    /\ stats' = NoStats
    /\ idx' = 1
    /\ requests' = <<>>
    /\ pc' = "restore_credentials"
    /\ UNCHANGED << ledger, remote, resources >>
    /\ UNCHANGED << store, confirm, choice, backup_files >>

StartRestoreFrom(configs, backups) ==
    /\ pc = "menu"
    /\ StartRestoreOn(ServerNames, configs, backups)

StartRestore ==
    /\ restores < MaxRestores
    /\ StartRestoreFrom({CredsConfig}, Backups)

env_credentials == creds_config.environments[target_env].credentials

env_postfix == creds_config.environments[target_env].postfix

\* As MappingSet, the assignment left out.
MappingSetSkipped(m, key, id) == m

\* credential_mapping[key] = id on an ordered dict of [key, id] entries.
MappingSet(m, key, id) ==
    IF \E i \in 1..Len(m) : m[i].key = key
    THEN [i \in 1..Len(m) |-> IF m[i].key = key THEN [key |-> key, id |-> id] ELSE m[i]]
    ELSE Append(m, [key |-> key, id |-> id])

(***************************************************************************)
(* create_credential: the POST and, on status 200, the ledger entry.       *)
(* The result holds the returned id ("None" for None) and the state the    *)
(* call leaves.                                                            *)
(***************************************************************************)
create_credential(url, credential_data, postfix, id, status) ==
    LET name == credential_name(credential_data.name, postfix)
        req == [Request("POST", url, "credentials", id, status) EXCEPT !.payload.name = name]
        created == CredentialCreated(status)
    IN  [new_id |-> IF created THEN id ELSE "None",
         created |-> created,
         requests |-> <<req>>,
         remote |-> RemoteAfter(remote, req, name),
         ledger |-> IF created
                    THEN save_resource_mapping(ledger, url, "credentials", id, name)
                    ELSE ledger]

(***************************************************************************)
(* One iteration of the credential loop of perform_restore.                *)
(***************************************************************************)
RestoreCredential ==
    /\ pc = "restore_credentials"
    /\ idx <= Len(env_credentials)
    /\ \E status \in ({200, 500}) :
          LET cred_data == env_credentials[idx]
              call == create_credential(base_url, cred_data, env_postfix,
                                        NewId(restores, cred_data.key), status)
          IN  /\ requests' = call.requests
              /\ remote' = call.remote
              /\ ledger' = call.ledger
              /\ IF call.created
                 THEN /\ credential_mapping' =
                            MappingSet(MappingSet(credential_mapping, cred_data.key,
                                                  call.new_id),
                                       cred_data.name, call.new_id)
                      /\ stats' = [stats EXCEPT !.credentials_created = @ + 1]
                 ELSE /\ credential_mapping' = credential_mapping
                      /\ stats' = [stats EXCEPT !.credentials_failed = @ + 1]
    /\ idx' = idx + 1
    /\ UNCHANGED << pc, selection, creds_config, restores, workflows, dependency_graph,
                    order_result, workflow_mapping, resources >>
    /\ UNCHANGED << store, confirm, choice, backup_files >>

(***************************************************************************)
(* perform_restore, "Analyzing workflow dependencies": the graph and the   *)
(* order, or the return on ValueError.                                     *)
(***************************************************************************)
RestoreAnalyze ==
    /\ pc = "restore_credentials"
    /\ idx > Len(env_credentials)
    /\ LET graph == build_dependency_graph(workflows)
           result == get_workflow_order(graph)
       IN  IF "order" \in DOMAIN result
           THEN /\ dependency_graph' = graph
                /\ order_result' = result
                /\ workflow_mapping' = EmptyMapping
                /\ idx' = 1
                /\ pc' = "restore_workflows"
                /\ UNCHANGED << selection, creds_config, workflows, credential_mapping,
                                stats, resources >>
           ELSE /\ pc' = "menu"
                /\ outcome' = result.raised
                /\ OperationReturned
    /\ requests' = <<>>
    /\ UNCHANGED << restores, ledger, remote >>
    /\ UNCHANGED << store, confirm, choice, backup_files >>

\* As workflow_order, the first workflow left out.
workflow_order_rest == Tail(order_result.order)

workflow_order == order_result.order

WorkflowById(id) == workflows[CHOOSE i \in 1..Len(workflows) : workflows[i].id = id]

(***************************************************************************)
(* create_workflow: the POST of the rewritten payload; on status 200 the   *)
(* transfer when the instance has projects; on a failed transfer the       *)
(* DELETE of the workflow, whose reply is not looked at; the ledger entry  *)
(* when nothing failed.  The payload is put together outside the try: a    *)
(* workflow file without 'name', 'nodes' or 'connections' raises KeyError  *)
(* out of create_workflow.                                                 *)
(* The rewriting works on a copy of workflow_data.  When the replacements  *)
(* cannot be loaded or applied (here: an entry of 'replacements' that is a *)
(* plain value, on which .get raises), the except branch binds             *)
(* workflow_payload to workflow_data itself, and the settings update and   *)
(* the node loop then write into the caller's definition: the result       *)
(* carries the definition as the call leaves it.                           *)
(***************************************************************************)
create_workflow(url, workflow_data, credential_map, sf_id_mapping, with_projects, id, post, transfer, rollback) ==
    LET \* create_workflow: not (response.status_code != 200)
        WorkflowCreated(status) == status = 200
        \* get_environment_replacements raises inside the try.
        replacing_raises ==
            \E k \in 1..Len(creds_config.replacements) :
               "scalar" \in DOMAIN creds_config.replacements[k]
        \* workflow_data after workflow_payload.update and the node loop ran on it.
        updated ==
            [k \in DOMAIN workflow_data \cup {"settings"} |->
                IF k = "settings" THEN normalized_settings(workflow_data)
                ELSE IF k = "nodes"
                     THEN [i \in 1..Len(workflow_data.nodes) |->
                              remap_node(resolve_credentials(workflow_data.nodes[i],
                                                             credential_map),
                                         sf_id_mapping)]
                     ELSE workflow_data[k]]
        definition == IF replacing_raises THEN updated ELSE workflow_data
    IN
    IF ~ ({"name", "nodes", "connections"} \subseteq DOMAIN workflow_data)
    THEN [raised |-> "KeyError", new_id |-> "None", created |-> FALSE,
          requests |-> <<>>, remote |-> remote, ledger |-> ledger,
          definition |-> definition]
    ELSE
    LET payload == create_payload(workflow_data, credential_map, sf_id_mapping,
                                  IF replacing_raises THEN <<>>
                                  ELSE get_environment_replacements(creds_config,
                                                                    target_env))
        posted == [Request("POST", url, "workflows", id, post) EXCEPT
                      !.source = workflow_data.id, !.payload = payload]
        created == WorkflowCreated(post)
        transferred == created /\ (with_projects => TransferOk(transfer))
        reqs == <<posted>>
                \o (IF created /\ with_projects
                    THEN << Request("PUT", url, "workflows", id, transfer) >> ELSE <<>>)
                \o (IF created /\ ~transferred
                    THEN << Request("DELETE", url, "workflows", id, rollback) >> ELSE <<>>)
        after_post == RemoteAfter(remote, posted, payload.name)
    IN  [raised |-> "",
         new_id |-> IF transferred THEN id ELSE "None",
         created |-> transferred,
         requests |-> reqs,
         remote |-> IF created /\ ~transferred
                    THEN RemoteAfter(after_post, reqs[Len(reqs)], payload.name)
                    ELSE after_post,
         ledger |-> IF transferred
                    THEN save_resource_mapping(ledger, url, "workflows", id, payload.name)
                    ELSE ledger,
         definition |-> definition]

(***************************************************************************)
(* One iteration of the workflow loop of perform_restore.                  *)
(***************************************************************************)
RestoreWorkflow ==
    LET PutStatuses == {200, 204, 500}
        MappingPut(m, key, id) ==
            [k \in DOMAIN m \cup {key} |-> IF k = key THEN id ELSE m[k]]
    IN
    /\ pc = "restore_workflows"
    /\ idx <= Len(workflow_order)
    /\ LET workflow_id == workflow_order[idx]
           id == NewId(restores, workflow_id)
       IN  \E post \in ({200, 500}), transfer \in PutStatuses :
           \E rollback \in DeleteStatuses(Is2xx(post)) :
              LET call == create_workflow(base_url, WorkflowById(workflow_id),
                                          credential_mapping, workflow_mapping,
                                          supports_projects, id,
                                          post, transfer, rollback)
              IN  /\ requests' = call.requests
                  /\ remote' = call.remote
                  /\ ledger' = call.ledger
                  /\ workflows' =
                        LET at == CHOOSE i \in 1..Len(workflows) :
                                     workflows[i].id = workflow_id
                        IN  [workflows EXCEPT ![at] = call.definition]
                  /\ IF call.raised # ""
                     THEN /\ pc' = "raised"
                          /\ outcome' = call.raised
                          /\ UNCHANGED << workflow_mapping, stats, idx >>
                     ELSE /\ IF call.created
                             THEN /\ workflow_mapping' =
                                        MappingPut(workflow_mapping, workflow_id,
                                                   call.new_id)
                                  /\ stats' = [stats EXCEPT !.workflows_created = @ + 1]
                             ELSE /\ workflow_mapping' = workflow_mapping
                                  /\ stats' = [stats EXCEPT !.workflows_failed = @ + 1]
                          /\ idx' = idx + 1
                          /\ UNCHANGED << pc, outcome >>
    /\ UNCHANGED << server, project, target_env, creds_config, restores,
                    credential_mapping, dependency_graph, order_result, resources >>
    /\ UNCHANGED << store, confirm, choice, backup_files >>

(***************************************************************************)
(* perform_restore, "Restore Complete": the counts are printed and main()  *)
(* is back at its menu.                                                    *)
(***************************************************************************)
RestoreReport ==
    /\ pc = "restore_workflows"
    /\ idx > Len(workflow_order)
    /\ pc' = "menu"
    /\ outcome' = "Restore Complete"
    /\ OperationReturned
    /\ requests' = <<>>
    /\ UNCHANGED << restores, ledger, remote >>
    /\ UNCHANGED << store, confirm, choice, backup_files >>

(***************************************************************************)
(* delete_workflow, delete_credential, delete_project: the DELETE, an      *)
(* exception unless the status is 200, and then remove_resource_mapping.   *)
(***************************************************************************)
\* As delete_resource, the ledger entry removed whatever the reply.
delete_resource_forgetting(url, resource_type, id, status) ==
    LET req == Request("DELETE", url, resource_type, id, status)
    IN  [raised |-> ~DeleteOk(status),
         requests |-> <<req>>,
         remote |-> RemoteAfter(remote, req, <<>>),
         ledger |-> remove_resource_mapping(ledger, url, resource_type, id)]

delete_resource(url, resource_type, id, status) ==
    LET req == Request("DELETE", url, resource_type, id, status)
        deleted == DeleteOk(status)
    IN  [raised |-> ~deleted,
         requests |-> <<req>>,
         remote |-> RemoteAfter(remote, req, <<>>),
         ledger |-> IF deleted
                    THEN remove_resource_mapping(ledger, url, resource_type, id)
                    ELSE ledger]

delete_workflow(url, workflow_id, status) ==
    delete_resource(url, "workflows", workflow_id, status)

delete_credential(url, credential_id, status) ==
    delete_resource(url, "credentials", credential_id, status)

delete_project(url, project_id, status) ==
    delete_resource(url, "projects", project_id, status)

(***************************************************************************)
(* main(), choice '3', and perform_cleanup up to its first loop: the       *)
(* confirmation, the ledger entry of the instance read once, and the       *)
(* return when it tracks neither workflows nor credentials.                *)
(***************************************************************************)
\* As Lower, a lone "y" read as "yes".
LowerLenient(answer) == IF answer \in {"YES", "y"} THEN "yes" ELSE answer

Lower(answer) == IF answer = "YES" THEN "yes" ELSE answer

\* As cleanup_loops, the workflows first.
cleanup_loops_swapped == << "workflows", "credentials" >>

\* perform_cleanup: its two loops, in the order in which they run.
cleanup_loops == << "credentials", "workflows" >>

StartCleanupOn(n, answer) ==
    LET NoCleanupStats == [workflows_deleted |-> 0, workflows_failed |-> 0,
                           credentials_deleted |-> 0, credentials_failed |-> 0]
    IN
    /\ LET tracked == get_instance_resources(ledger, Servers[n].url)
       IN  IF Lower(answer) # "yes"
           THEN /\ pc' = "menu"
                /\ outcome' = "Operation cancelled."
                /\ OperationReturned
           ELSE IF tracked.workflows = <<>> /\ tracked.credentials = <<>>
           THEN /\ pc' = "menu"
                /\ outcome' = "No tracked resources found"
                /\ OperationReturned
           ELSE /\ server' = n
                /\ project' = ProjectOf(n)
                /\ outcome' = ""
                /\ resources' = tracked
                /\ stats' = NoCleanupStats
                /\ idx' = 1
                /\ pc' = cleanup_loops[1]
                /\ UNCHANGED << target_env, restore_locals >>
    /\ requests' = <<>>
    /\ UNCHANGED << restores, ledger, remote >>
    /\ UNCHANGED << store, choice, backup_files >>

StartCleanupAnswering(n, answer) ==
    /\ pc = "menu"
    /\ StartCleanupOn(n, answer)

StartCleanup ==
    /\ \E n \in ServerNames, answer \in ({"yes", "YES", "no", "y"}) : StartCleanupAnswering(n, answer)
    /\ UNCHANGED confirm

(***************************************************************************)
(* One iteration of the loop of perform_cleanup over the tracked           *)
(* credentials.                                                            *)
(***************************************************************************)
CleanupCredential ==
    /\ pc = "credentials"
    /\ idx <= Len(resources.credentials)
    /\ LET cred_id == resources.credentials[idx].id
       IN  \E status \in DeleteStatuses(cred_id \in RemoteIds(remote, base_url, "credentials")) :
              LET call == delete_credential(base_url, cred_id, status)
              IN  /\ requests' = call.requests
                  /\ remote' = call.remote
                  /\ ledger' = call.ledger
                  /\ stats' = IF call.raised
                              THEN [stats EXCEPT !.credentials_failed = @ + 1]
                              ELSE [stats EXCEPT !.credentials_deleted = @ + 1]
    /\ idx' = idx + 1
    /\ UNCHANGED << pc, selection, restores, restore_locals, resources >>
    /\ UNCHANGED << store, confirm, choice, backup_files >>

(***************************************************************************)
(* One iteration of the loop of perform_cleanup over the tracked           *)
(* workflows.                                                              *)
(***************************************************************************)
CleanupWorkflow ==
    /\ pc = "workflows"
    /\ idx <= Len(resources.workflows)
    /\ LET workflow_id == resources.workflows[idx].id
       IN  \E status \in DeleteStatuses(workflow_id \in RemoteIds(remote, base_url, "workflows")) :
              LET call == delete_workflow(base_url, workflow_id, status)
              IN  /\ requests' = call.requests
                  /\ remote' = call.remote
                  /\ ledger' = call.ledger
                  /\ stats' = IF call.raised
                              THEN [stats EXCEPT !.workflows_failed = @ + 1]
                              ELSE [stats EXCEPT !.workflows_deleted = @ + 1]
    /\ idx' = idx + 1
    /\ UNCHANGED << pc, selection, restores, restore_locals, resources >>
    /\ UNCHANGED << store, confirm, choice, backup_files >>

\* The first loop of perform_cleanup is over: the second one starts.
CleanupNextLoop ==
    /\ pc = cleanup_loops[1]
    /\ idx > Len(resources[pc])
    /\ pc' = cleanup_loops[2]
    /\ idx' = 1
    /\ requests' = <<>>
    /\ UNCHANGED << selection, restores, ledger, remote, restore_locals, stats,
                    resources >>
    /\ UNCHANGED << store, confirm, choice, backup_files >>

(***************************************************************************)
(* The end of perform_cleanup: the project is deleted when the ledger      *)
(* entry read at the start tracks it, and the summary is printed.          *)
(***************************************************************************)
CleanupProject ==
    /\ pc = cleanup_loops[2]
    /\ idx > Len(resources[pc])
    /\ IF project.id # "None" /\ project.id \in DictKeys(resources.projects)
       THEN \E status \in DeleteStatuses(project.id \in RemoteIds(remote, base_url, "projects")) :
               LET call == delete_project(base_url, project.id, status)
               IN  /\ requests' = call.requests
                   /\ remote' = call.remote
                   /\ ledger' = call.ledger
       ELSE /\ requests' = <<>>
            /\ UNCHANGED << remote, ledger >>
    /\ pc' = "menu"
    /\ outcome' = "Cleanup Summary"
    /\ OperationReturned
    /\ UNCHANGED restores
    /\ UNCHANGED << store, confirm, choice, backup_files >>

Next ==
    \/ StartRestore
    \/ RestoreCredential
    \/ RestoreAnalyze
    \/ RestoreWorkflow
    \/ RestoreReport
    \/ StartCleanup
    \/ CleanupCredential
    \/ CleanupWorkflow
    \/ CleanupNextLoop
    \/ CleanupProject

Spec == Init /\ [][Next]_vars

(***************************************************************************)
(* The order resolver on its own: a graph is drawn and get_workflow_order  *)
(* is applied to it.  The keys are W1, W2, W3 in this insertion order (a   *)
(* prefix of them); a dependency list holds keys and the identifier X9,    *)
(* which is no key.                                                        *)
(***************************************************************************)
OrderKeys == << "W1", "W2", "W3" >>

InitOrder ==
    LET OrderDeps == SeqsUpTo(Range(OrderKeys) \cup {"X9"}, MaxDeps)
        OrderGraph(n, d) == [i \in 1..n |-> [id |-> OrderKeys[i], deps |-> d[i]]]
    IN
    /\ pc = "order"
    /\ \E n \in 0..Len(OrderKeys) : \E d \in [1..n -> OrderDeps] :
          dependency_graph = OrderGraph(n, d)
    /\ order_result = NoOrder
    /\ Idle

ResolveOrder ==
    /\ pc = "order"
    /\ order_result' = get_workflow_order(dependency_graph)
    /\ pc' = "ordered"
    /\ UNCHANGED << selection, creds_config, restores, ledger, remote, workflows,
                    credential_mapping, dependency_graph, workflow_mapping, idx, stats,
                    resources, requests >>
    /\ UNCHANGED << store, confirm, choice, backup_files >>

OrderSpec == InitOrder /\ [][ResolveOrder]_vars


(***************************************************************************)
(* Cleanup on its own, over the ledgers that restores of an earlier        *)
(* session to both instances leave in resource_mappings.json: the ledger   *)
(* is a file, read again by each get_instance_resources.  One of the       *)
(* tracked workflows may since have been removed from its instance by      *)
(* hand.                                                                   *)
(***************************************************************************)
SessionWorkflows ==
    << [key |-> "W1", name |-> <<"Alpha">>], [key |-> "W2", name |-> <<"Beta">>] >>

SessionRun(n) == IF n = "cloud" THEN 1 ELSE 2

RECURSIVE SaveAll(_, _, _, _, _)
SaveAll(mappings, u, type, run, items) ==
    IF items = <<>> THEN mappings
    ELSE SaveAll(save_resource_mapping(mappings, u, type,
                                       NewId(run, items[1].key), items[1].name),
                 u, type, run, Tail(items))

RECURSIVE AddAll(_, _, _, _, _)
AddAll(r, u, type, run, items) ==
    IF items = <<>> THEN r
    ELSE AddAll(RemoteAdd(r, u, type, NewId(run, items[1].key), items[1].name),
                u, type, run, Tail(items))

InitCleanup ==
    LET SessionCredentials ==
            << [key |-> <<"slack_token">>, name |-> <<"Slack", "Token", "Dev">>] >>
        Prefixes(s) == {SubSeq(s, 1, n) : n \in 0..Len(s)}
        SessionLedger(made) ==
            LET cu == Servers["cloud"].url
                lu == Servers["local"].url
                c1 == SaveAll(EmptyLedger, cu, "credentials", SessionRun("cloud"), made.cloud_c)
                c2 == SaveAll(c1, cu, "workflows", SessionRun("cloud"), made.cloud_w)
                l1 == SaveAll(c2, lu, "credentials", SessionRun("local"), made.local_c)
            IN  SaveAll(l1, lu, "workflows", SessionRun("local"), made.local_w)
        SessionRemote(made, by_hand) ==
            LET cu == Servers["cloud"].url
                lu == Servers["local"].url
                c1 == AddAll(InitRemote, cu, "credentials", SessionRun("cloud"), made.cloud_c)
                c2 == AddAll(c1, cu, "workflows", SessionRun("cloud"), made.cloud_w)
                l1 == AddAll(c2, lu, "credentials", SessionRun("local"), made.local_c)
                l2 == AddAll(l1, lu, "workflows", SessionRun("local"), made.local_w)
            IN  IF by_hand /\ made.cloud_w # <<>>
                THEN RemoteRemove(l2, cu, "workflows",
                                  NewId(SessionRun("cloud"), made.cloud_w[1].key))
                ELSE l2
    IN
    /\ pc = "menu"
    /\ \E cw \in Prefixes(SessionWorkflows), lw \in Prefixes(SessionWorkflows) :
       \E cc \in Prefixes(SessionCredentials), lc \in Prefixes(SessionCredentials) :
       \E by_hand \in BOOLEAN :
          LET made == [cloud_w |-> cw, cloud_c |-> cc, local_w |-> lw, local_c |-> lc]
          IN  /\ ledger = SessionLedger(made)
              /\ remote = SessionRemote(made, by_hand)
    /\ restores = SessionRun("local")
    /\ server = "none"
    /\ project = NoProject
    /\ target_env = "none"
    /\ creds_config = NoConfig
    /\ workflows = <<>>
    /\ credential_mapping = <<>>
    /\ dependency_graph = <<>>
    /\ order_result = NoOrder
    /\ workflow_mapping = EmptyMapping
    /\ idx = 0
    /\ stats = NoStats
    /\ resources = EmptyResources
    /\ requests = <<>>
    /\ outcome = ""
    /\ store = IdleStore
    /\ confirm = ""
    /\ choice = ""
    /\ backup_files = {}

NextCleanup ==
    \/ StartCleanup
    \/ CleanupCredential
    \/ CleanupWorkflow
    \/ CleanupNextLoop
    \/ CleanupProject

CleanupSpec == InitCleanup /\ [][NextCleanup]_vars

(***************************************************************************)
(* The same cleanups with the answer to "Are you sure you want to          *)
(* proceed? (yes/no)" kept in view.                                        *)
(***************************************************************************)
AnswerCleanup ==
    \E n \in ServerNames, answer \in ({"yes", "YES", "no", "y"}) :
       /\ StartCleanupAnswering(n, answer)
       /\ confirm' = answer

NextConfirm ==
    \/ AnswerCleanup
    \/ CleanupCredential
    \/ CleanupWorkflow
    \/ CleanupNextLoop
    \/ CleanupProject

ConfirmSpec == InitCleanup /\ [][NextConfirm]_vars

(***************************************************************************)
(* The ledger store on its own, one file operation at a time.              *)
(* save_resource_mapping and remove_resource_mapping read the whole        *)
(* document, change it in memory, open the file for writing, which         *)
(* truncates it, and dump the document into it.  The process can die       *)
(* between any two of these; a file that was truncated and not written     *)
(* out does not parse.  store.recorded remembers the (url, type, id)       *)
(* save_resource_mapping was called with.                                  *)
(***************************************************************************)
\* get_instance_resources on the file as it is: a file that does not parse
\* takes the except branch.
read_instance_resources(instance_url) ==
    IF store.torn THEN EmptyResources
    ELSE get_instance_resources(ledger, instance_url)

store_others == << server, project, target_env, creds_config, restores, remote, workflows,
                   credential_mapping, dependency_graph, order_result,
                   workflow_mapping, idx, stats, resources, requests, outcome, confirm,
                   choice, backup_files >>

InitStore ==
    /\ pc = "store"
    /\ dependency_graph = <<>>
    /\ order_result = NoOrder
    /\ Idle

\* The call is made and the file is read; the document is changed in
\* memory.  A file that does not parse raises, and remove_resource_mapping
\* of an entry that is not there writes nothing: the call is over.
StoreBegin ==
    LET StoreName(id) == IF id = NewId(1, "W1") THEN <<"Alpha">> ELSE <<"Beta">>
        \* The first id is used with every instance and type, the second one with
        \* the workflows of the first instance only.
        StoreCalls ==
            {call \in [op : {"save", "remove"}, url : Urls, type : ({"workflows", "credentials"}),
                       id : ({NewId(1, "W1"), NewId(1, "W2")}), name : {StoreName(i) : i \in ({NewId(1, "W1"), NewId(1, "W2")})}] :
                /\ call.name = StoreName(call.id)
                /\ call.id = NewId(1, "W2") =>
                      (call.url = Servers["cloud"].url /\ call.type = "workflows")}
    IN
    /\ pc = "store"
    /\ store.step = "idle"
    /\ \E call \in StoreCalls :
          LET after == IF call.op = "save"
                       THEN save_resource_mapping(ledger, call.url, call.type,
                                                  call.id, call.name)
                       ELSE remove_resource_mapping(ledger, call.url, call.type,
                                                    call.id)
              known == IF call.op = "save"
                       THEN store.recorded \cup {<< call.url, call.type, call.id >>}
                       ELSE store.recorded
          IN  IF store.torn \/ (call.op = "remove" /\ after = ledger)
              THEN store' = [store EXCEPT !.done = call, !.recorded = known]
              ELSE store' = [step |-> "loaded", torn |-> FALSE, recorded |-> known,
                             done |-> store.done, call |-> call,
                             before |-> ledger, mappings |-> after]
    /\ UNCHANGED << pc, ledger, store_others >>

\* open(storage_file, 'w'): the file is empty.
StoreOpen ==
    /\ pc = "store"
    /\ store.step = "loaded"
    /\ ledger' = EmptyLedger
    /\ store' = [store EXCEPT !.step = "opened", !.torn = TRUE]
    /\ UNCHANGED << pc, store_others >>

\* json.dump and the close of the file: the document is on disk.
StoreDump ==
    /\ pc = "store"
    /\ store.step = "opened"
    /\ ledger' = store.mappings
    /\ store' = [step |-> "idle", torn |-> FALSE, recorded |-> store.recorded,
                 done |-> store.call]
    /\ UNCHANGED << pc, store_others >>

\* The process dies in the middle of the call: the file stays as it is.
StoreCrash ==
    /\ pc = "store"
    /\ store.step \in {"loaded", "opened"}
    /\ store' = [store EXCEPT !.step = "crashed"]
    /\ UNCHANGED << pc, ledger, store_others >>

\* The tool is started again.
StoreRestart ==
    /\ pc = "store"
    /\ store.step = "crashed"
    /\ store' = [step |-> "idle", torn |-> store.torn, recorded |-> store.recorded,
                 done |-> [op |-> "restart"]]
    /\ UNCHANGED << pc, ledger, store_others >>

NextStore ==
    \/ StoreBegin
    \/ StoreOpen
    \/ StoreDump
    \/ StoreCrash
    \/ StoreRestart

LedgerSpec == InitStore /\ [][NextStore]_vars

(***************************************************************************)
(* One restore over more inputs: a credentials.yaml whose development      *)
(* environment declares credentials that share their first word, and       *)
(* backups whose nodes use credentials or whose workflow files lack a key. *)
(***************************************************************************)
\* W1 invokes nothing, W2 invokes W1 by a string id.
PairBackup ==
    << Workflow("W1", <<"Alpha">>, <<>>),
       Workflow("W2", <<"Beta">>, <<Node(ExecuteWorkflow, StrRef("W1"))>>) >>

StartWideRestore ==
    LET \* A workflow file in which one key is missing.
        Lacking(workflow, key) == [k \in DOMAIN workflow \ {key} |-> workflow[k]]
        SharedWordConfig ==
            [environments |->
               [e \in Environments |->
                   IF e = "production"
                   THEN [postfix |-> "Prod",
                         credentials |->
                           << [key |-> <<"github">>, name |-> <<"GitHub">>, type |-> "githubApi"] >>]
                   ELSE [postfix |-> "Dev",
                         credentials |->
                           << [key |-> <<"slack_bot">>, name |-> <<"Slack", "Bot">>, type |-> "slackApi"],
                              [key |-> <<"slack_token">>, name |-> <<"Slack", "Token">>, type |-> "slackApi"],
                              [key |-> <<"my_mysql">>, name |-> <<"My", "MySQL">>, type |-> "mySql"],
                              [key |-> <<"my_postgres_db">>, name |-> <<"My", "Postgres", "DB">>,
                               type |-> "postgres"] >>]],
             replacements |-> <<>>]
        \* Two declarations of the development environment give the same name.
        SameNameConfig ==
            [CredsConfig EXCEPT !.environments["development"].credentials =
                << [key |-> <<"pg_main">>, name |-> <<"Postgres">>, type |-> "postgres"],
                   [key |-> <<"pg_replica">>, name |-> <<"Postgres">>, type |-> "postgres"] >>]
        WideConfigs == {CredsConfig, SharedWordConfig, SameNameConfig}
        WideBackups ==
            LET \* One workflow whose nodes use credentials.
                CredentialBackup ==
                    << Workflow("W1", <<"Alpha">>,
                                << CredentialNode(<<"Slack", "Token">>),
                                   CredentialNode(<<"My", "Postgres", "DB", "Prod">>),
                                   CredentialNode(<<"GitHub">>) >>) >>
                \* The file of W2 has no 'connections'; W3 invokes W1.
                NoConnectionsBackup ==
                    << Workflow("W1", <<"Alpha">>, <<Node(OtherNode, NoRef)>>),
                       Lacking(Workflow("W2", <<"Beta">>, <<Node(OtherNode, NoRef)>>), "connections"),
                       Workflow("W3", <<"Gamma">>, <<Node(ExecuteWorkflow, StrRef("W1"))>>) >>
                \* The file of W1 has no 'nodes'.
                NoNodesBackup ==
                    << Lacking(Workflow("W1", <<"Alpha">>, <<>>), "nodes"),
                       Workflow("W2", <<"Beta">>, <<Node(OtherNode, NoRef)>>) >>
                \* W2 invokes W1 through a tool node that names it by a string, and X9,
                \* which is not in the backup, through an object.
                ToolStringBackup ==
                    << Workflow("W1", <<"Alpha">>, <<Node(OtherNode, NoRef)>>),
                       Workflow("W2", <<"Beta">>,
                                << Node(ToolWorkflow, StrRef("W1")),
                                   Node(ExecuteWorkflow, DictRef("X9", <<"Elsewhere", "Prod">>)) >>) >>
            IN
            Backups \cup {PairBackup, CredentialBackup, NoConnectionsBackup, NoNodesBackup,
                          ToolStringBackup}
    IN
    /\ restores = 0
    /\ StartRestoreFrom(WideConfigs, WideBackups)

NextWide ==
    \/ StartWideRestore
    \/ RestoreCredential
    \/ RestoreAnalyze
    \/ RestoreWorkflow
    \/ RestoreReport

WideSpec == Init /\ [][NextWide]_vars

(***************************************************************************)
(* Restores of workflows that carry settings and environment-bound         *)
(* literals, with a credentials.yaml that declares replacement groups.     *)
(***************************************************************************)
WithSettings(workflow, settings) ==
    [k \in DOMAIN workflow \cup {"settings"} |->
        IF k = "settings" THEN settings ELSE workflow[k]]

\* A value that is a literal of the table, values that contain one, and a
\* value that contains none.
LiteralBackup ==
    LET \* A node with a parameter that holds a text.
        UrlNode(url) == [type |-> OtherNode, workflowId |-> NoRef, url |-> url]
    IN
    << Workflow("W1", <<"Alpha">>,
                << UrlNode(<< "api.example.com" >>),
                   UrlNode(<< "staging-", "api.example.com" >>),
                   UrlNode(<< "https://", "dev.example.com", "/hook" >>),
                   UrlNode(<< "https://other.example/" >>) >>) >>

\* One workflow whose settings give any of the five fields, and in one
\* case a field that is none of the five.
SettingsOf(fields) ==
    LET \* A value a workflow gives one of the five settings, other than its default.
        ExplicitValue(field) ==
            CASE field = "saveExecutionProgress" -> FALSE
              [] field = "saveManualExecutions" -> FALSE
              [] field = "saveDataErrorExecution" -> "none"
              [] field = "executionTimeout" -> 60
              [] field = "errorWorkflow" -> "W9"
              [] OTHER -> "Europe/Vienna"
    IN                [k \in fields |-> ExplicitValue(k)]

StartRewriteRestore ==
    LET \* "api_host" has a value for both environments, "sheet" for production
        \* only.
        ReplacementConfig ==
            [CredsConfig EXCEPT !.replacements =
                << [name |-> "api_host",
                    values |-> << [env |-> "production", value |-> "api.example.com"],
                                  [env |-> "development", value |-> "dev.example.com"] >>],
                   [name |-> "sheet",
                    values |-> << [env |-> "production", value |-> "sheet-prod"] >>] >>]
        RewriteBackups ==
            LET SettingsBackups ==
                    { << WithSettings(Workflow("W1", <<"Alpha">>, <<Node(OtherNode, NoRef)>>),
                                      SettingsOf(fields)) >> :
                         fields \in SUBSET DOMAIN DefaultSettings }
                    \cup { << WithSettings(Workflow("W1", <<"Alpha">>, <<Node(OtherNode, NoRef)>>),
                                           SettingsOf({"timezone", "executionTimeout"})) >> }
            IN            SettingsBackups \cup {LiteralBackup}
    IN
    /\ restores = 0
    /\ StartRestoreFrom({ReplacementConfig}, RewriteBackups)

NextRewrite ==
    \/ StartRewriteRestore
    \/ RestoreCredential
    \/ RestoreAnalyze
    \/ RestoreWorkflow
    \/ RestoreReport

RewriteSpec == Init /\ [][NextRewrite]_vars

(***************************************************************************)
(* One restore with a credentials.yaml whose 'replacements' section cannot *)
(* be read as the code expects, beside one whose section is empty: the     *)
(* backups hold a reference to remap, a credential to resolve and settings *)
(* to fill in.                                                             *)
(***************************************************************************)
StartFallbackRestore ==
    LET \* "sheet" is written as a plain value, not as a mapping with 'values'.
        PlainEntryConfig ==
            [CredsConfig EXCEPT !.replacements =
                << [name |-> "api_host",
                    values |-> << [env |-> "production", value |-> "api.example.com"],
                                  [env |-> "development", value |-> "dev.example.com"] >>],
                   [name |-> "sheet", scalar |-> "sheet-prod"] >>]
        FallbackBackups ==
            { PairBackup,
              << Workflow("W1", <<"Alpha">>, << CredentialNode(<<"Slack", "Token">>) >>) >>,
              << WithSettings(Workflow("W1", <<"Alpha">>, <<Node(OtherNode, NoRef)>>),
                              SettingsOf({"timezone", "executionTimeout"})) >> }
    IN
    /\ restores = 0
    /\ StartRestoreFrom({CredsConfig, PlainEntryConfig}, FallbackBackups)

NextFallback ==
    \/ StartFallbackRestore
    \/ RestoreCredential
    \/ RestoreAnalyze
    \/ RestoreWorkflow
    \/ RestoreReport

FallbackSpec == Init /\ [][NextFallback]_vars

(***************************************************************************)
(* perform_backup: the workflows of the instance are fetched with one GET  *)
(* and each is written to a file of the backup directory.  A backup        *)
(* directory is named after the server, the project and the time; a file   *)
(* is identified here by server, project and file name, so that a later    *)
(* backup of the same workflow takes the place of the earlier one.         *)
(***************************************************************************)
\* The ways in which an instance can list a set of workflows.
Listings(S) ==
    {s \in SeqsUpTo(S, Cardinality(S)) : Len(s) = Cardinality(S) /\ Range(s) = S}

\* get_workflows: the list of the reply on status 200, [] otherwise.
get_workflows(url, listing, status) ==
    [workflows |-> IF status = 200 THEN listing ELSE <<>>,
     requests |-> << Request("GET", url, "workflows", "None", status) >>]

BackupFile(server_name, project_name, workflow, content) ==
    [server |-> server_name, project |-> project_name,
     file |-> << workflow.name, workflow.id >>, content |-> content]

\* As save_workflow, the settings of the workflow filled in as for a create.
save_workflow_normalized(files, server_name, project_name, workflow, written) ==
    IF written
    THEN {f \in files : ~ (/\ f.server = server_name
                           /\ f.project = project_name
                           /\ f.file = << workflow.name, workflow.id >>)}
         \cup {BackupFile(server_name, project_name, workflow,
                          WithSettings(workflow, normalized_settings(workflow)))}
    ELSE files

\* save_workflow: json.dump of the workflow as fetched; a file that cannot
\* be written is reported and skipped.
save_workflow(files, server_name, project_name, workflow, written) ==
    IF written
    THEN {f \in files : ~ (/\ f.server = server_name
                           /\ f.project = project_name
                           /\ f.file = << workflow.name, workflow.id >>)}
         \cup {BackupFile(server_name, project_name, workflow, workflow)}
    ELSE files

\* main(), choice '1', and perform_backup up to its loop.
StartBackupOn(n) ==
    /\ \E status \in {200, 500} :
       \E listing \in Listings(remote[Servers[n].url].workflows) :
          LET call == get_workflows(Servers[n].url, listing, status)
          IN  /\ requests' = call.requests
              /\ IF call.workflows = <<>>
                 THEN /\ pc' = "menu"
                      /\ outcome' = "No workflows found to backup"
                      /\ OperationReturned
                 ELSE /\ server' = n
                      /\ project' = ProjectOf(n)
                      /\ workflows' = call.workflows
                      /\ idx' = 1
                      /\ pc' = "backup_save"
                      /\ outcome' = ""
                      /\ UNCHANGED << target_env, creds_config, credential_mapping,
                                      dependency_graph, order_result, workflow_mapping,
                                      stats, resources >>
    /\ UNCHANGED << restores, ledger, remote, store, confirm, backup_files >>

StartBackup ==
    /\ pc = "menu"
    /\ \E n \in ServerNames : StartBackupOn(n)
    /\ UNCHANGED choice

\* One iteration of the loop of perform_backup.
BackupSave ==
    /\ pc = "backup_save"
    /\ idx <= Len(workflows)
    /\ \E written \in BOOLEAN :
          backup_files' = save_workflow(backup_files, server, project.name,
                                        workflows[idx], written)
    /\ idx' = idx + 1
    /\ requests' = <<>>
    /\ UNCHANGED << pc, selection, restores, ledger, remote, restore_locals, stats,
                    resources, store, confirm, choice >>

\* "Backup complete!"
BackupDone ==
    /\ pc = "backup_save"
    /\ idx > Len(workflows)
    /\ pc' = "menu"
    /\ outcome' = "Backup complete!"
    /\ OperationReturned
    /\ requests' = <<>>
    /\ UNCHANGED << restores, ledger, remote, store, confirm, choice, backup_files >>

\* The instances hold some of the definitions, and the ledger tracks a
\* workflow of an earlier restore or nothing.
InitBackup ==
    LET \* The workflows on the instances that are backed up: definitions with
        \* literals, references, credentials and settings of their own.
        RemoteDefinitions ==
            { LiteralBackup[1],
              ToolBackup[2],
              WithSettings(Workflow("W3", <<"Gamma">>, << CredentialNode(<<"Slack", "Token">>) >>),
                           SettingsOf({"executionTimeout", "timezone"})) }
    IN
    /\ pc = "menu"
    /\ dependency_graph = <<>>
    /\ order_result = NoOrder
    /\ \E held \in SUBSET RemoteDefinitions :
          remote = [u \in Urls |-> [InitRemote[u] EXCEPT !.workflows = held]]
    /\ \E tracked \in BOOLEAN :
          ledger = IF tracked
                   THEN save_resource_mapping(EmptyLedger, Servers["cloud"].url,
                                              "workflows", NewId(1, "W1"), <<"Alpha">>)
                   ELSE EmptyLedger
    /\ server = "none"
    /\ project = NoProject
    /\ target_env = "none"
    /\ creds_config = NoConfig
    /\ restores = 1
    /\ workflows = <<>>
    /\ credential_mapping = <<>>
    /\ workflow_mapping = EmptyMapping
    /\ idx = 0
    /\ stats = NoStats
    /\ resources = EmptyResources
    /\ requests = <<>>
    /\ outcome = ""
    /\ store = IdleStore
    /\ confirm = ""
    /\ choice = ""
    /\ backup_files = {}

NextBackup ==
    \/ StartBackup
    \/ BackupSave
    \/ BackupDone

BackupSpec == InitBackup /\ [][NextBackup]_vars

(***************************************************************************)
(* main(), one step at a time: the choice at the menu, the server, the     *)
(* connection test, the project, and then the operation chosen.  A         *)
(* `continue` of the loop leads back to the menu.                          *)
(***************************************************************************)
\* As test_api_connection, the status not looked at.
test_api_connection_ignored(status) == TRUE

\* test_api_connection: GET /workflows answered 200.
test_api_connection(status) == status = 200

\* get_all_projects: the list of the reply on status 200, [] otherwise.
get_all_projects(listing, status) == IF status = 200 THEN listing ELSE <<>>

MainChoose ==
    LET Choices == {"1", "2", "3", "4", "9"}
    IN
    /\ pc = "menu"
    /\ \E c \in Choices :
          /\ choice' = c
          /\ pc' = IF c = "4" THEN "exited"
                   ELSE IF c \in {"1", "2", "3"} THEN "select_server"
                   ELSE "menu"
    /\ requests' = <<>>
    /\ UNCHANGED << selection, restores, ledger, remote, restore_locals, idx, stats,
                    resources, store, confirm, backup_files >>

MainSelectServer ==
    /\ pc = "select_server"
    /\ \E n \in ServerNames : server' = n
    /\ pc' = "test_connection"
    /\ requests' = <<>>
    /\ UNCHANGED << project, target_env, outcome, restores, ledger, remote,
                    restore_locals, idx, stats, resources, store, confirm, choice,
                    backup_files >>

MainTestConnection ==
    /\ pc = "test_connection"
    /\ \E status \in {200, 401, 500} :
          /\ requests' = << Request("GET", base_url, "workflows", "None", status) >>
          /\ IF test_api_connection(status)
             THEN /\ pc' = "select_project"
                  /\ UNCHANGED server
             ELSE /\ pc' = "menu"
                  /\ server' = "none"
    /\ UNCHANGED << project, target_env, outcome, restores, ledger, remote,
                    restore_locals, idx, stats, resources, store, confirm, choice,
                    backup_files >>

\* get_or_create_project, or the default project of an instance without
\* projects.
MainProject ==
    /\ pc = "select_project"
    /\ IF supports_projects
       THEN \E status \in {200, 403, 500} :
            \E listing \in Listings(remote[base_url].projects) :
               LET projects == get_all_projects(listing, status)
               IN  /\ requests' = << Request("GET", base_url, "projects", "None", status) >>
                   /\ IF projects = <<>>
                      THEN /\ pc' = "menu"
                           /\ server' = "none"
                           /\ UNCHANGED project
                      ELSE /\ \E k \in 1..Len(projects) : project' = projects[k]
                           /\ pc' = "dispatch"
                           /\ UNCHANGED server
       ELSE /\ project' = NoProject
            /\ pc' = "dispatch"
            /\ requests' = <<>>
            /\ UNCHANGED server
    /\ UNCHANGED << target_env, outcome, restores, ledger, remote, restore_locals, idx,
                    stats, resources, store, confirm, choice, backup_files >>

MainBackup ==
    /\ pc = "dispatch"
    /\ choice = "1"
    /\ StartBackupOn(server)
    /\ UNCHANGED choice

MainRestore ==
    /\ pc = "dispatch"
    /\ choice = "2"
    /\ restores = 0
    /\ StartRestoreOn({server}, {CredsConfig}, {PairBackup})

MainCleanup ==
    /\ pc = "dispatch"
    /\ choice = "3"
    /\ \E answer \in ({"yes", "YES", "no", "y"}) : StartCleanupOn(server, answer)
    /\ UNCHANGED confirm

NextMain ==
    \/ MainChoose
    \/ MainSelectServer
    \/ MainTestConnection
    \/ MainProject
    \/ MainBackup
    \/ BackupSave
    \/ BackupDone
    \/ MainRestore
    \/ RestoreCredential
    \/ RestoreAnalyze
    \/ RestoreWorkflow
    \/ RestoreReport
    \/ MainCleanup
    \/ CleanupCredential
    \/ CleanupWorkflow
    \/ CleanupNextLoop
    \/ CleanupProject

MainSpec == Init /\ [][NextMain]_vars

(***************************************************************************)
(* create_credential on its own, called for one declaration under a target *)
(* postfix: every name of up to three words over two plain words and the   *)
(* two configured postfixes, and the postfixes "Dev", "Prod" and "" (an     *)
(* environment without a postfix adds nothing to all_postfixes).           *)
(***************************************************************************)
CallNamedCredential ==
    /\ pc = "menu"
    /\ \E declared \in SeqsUpTo({"Slack", "Token", "Prod", "Dev"}, 3) \ {<<>>},
          postfix \in {"Dev", "Prod", ""}, n \in ServerNames, status \in {200, 500} :
          LET cred_data == [key |-> <<"declared">>, name |-> declared, type |-> "slackApi"]
              call == create_credential(Servers[n].url, cred_data, postfix,
                                        NewId(1, cred_data.key), status)
          IN  /\ server' = n
              /\ target_env' = "target"
              /\ creds_config' =
                    [environments |->
                        [e \in {"target"} |->
                            [postfix |-> postfix, credentials |-> <<cred_data>>]],
                     replacements |-> <<>>]
              /\ requests' = call.requests
              /\ remote' = call.remote
              /\ ledger' = call.ledger
    /\ pc' = "named"
    /\ UNCHANGED << project, outcome, restores, workflows, credential_mapping,
                    dependency_graph, order_result, workflow_mapping, idx, stats,
                    resources, store, confirm, choice, backup_files >>

NameSpec == Init /\ [][CallNamedCredential]_vars

(***************************************************************************)
(* The calls that talk to an instance, one after the other, under every    *)
(* status the instance can answer with: create_credential, then            *)
(* create_workflow, then a delete of one of the resources made.            *)
(***************************************************************************)
InitCalls ==
    /\ pc = "call_credential"
    /\ dependency_graph = <<>>
    /\ order_result = NoOrder
    /\ Idle

CallCreateCredential ==
    /\ pc = "call_credential"
    /\ \E n \in ServerNames, status \in ({200, 201, 204, 400, 500}) :
          LET cred_data == CredsConfig.environments["development"].credentials[1]
              call == create_credential(Servers[n].url, cred_data,
                                        CredsConfig.environments["development"].postfix,
                                        NewId(1, cred_data.key), status)
          IN  /\ server' = n
              /\ requests' = call.requests
              /\ remote' = call.remote
              /\ ledger' = call.ledger
    /\ pc' = "call_workflow"
    /\ UNCHANGED << project, target_env, outcome, restores, restore_locals, idx,
                    stats, resources, store, confirm,
                    choice, backup_files >>

CallCreateWorkflow ==
    /\ pc = "call_workflow"
    /\ \E post \in ({200, 201, 204, 400, 500}), transfer \in ({200, 201, 204, 400, 500}) :
       \E rollback \in (IF (Is2xx(post)) THEN ({200, 201, 204, 400, 500}) ELSE {404}) :
          LET call == create_workflow(base_url, PairBackup[1], <<>>, EmptyMapping,
                                      supports_projects, NewId(1, PairBackup[1].id),
                                      post, transfer, rollback)
          IN  /\ requests' = call.requests
              /\ remote' = call.remote
              /\ ledger' = call.ledger
    /\ pc' = "call_delete"
    /\ UNCHANGED << selection, restores, restore_locals, idx, stats, resources, store, confirm,
                    choice, backup_files >>

CallDelete ==
    /\ pc = "call_delete"
    /\ \E t \in ({"workflows", "credentials"}) :
       \E id \in DictKeys(get_instance_resources(ledger, base_url)[t]) :
       \E status \in (IF (id \in RemoteIds(remote, base_url, t)) THEN ({200, 201, 204, 400, 500}) ELSE {404}) :
          LET call == delete_resource(base_url, t, id, status)
          IN  /\ requests' = call.requests
              /\ remote' = call.remote
              /\ ledger' = call.ledger
    /\ pc' = "called"
    /\ UNCHANGED << selection, restores, restore_locals, idx, stats, resources, store, confirm,
                    choice, backup_files >>

NextCalls ==
    \/ CallCreateCredential
    \/ CallCreateWorkflow
    \/ CallDelete

StatusSpec == InitCalls /\ [][NextCalls]_vars

(***************************************************************************)
(* Vocabulary of the properties.                                           *)
(***************************************************************************)

\* A set of keys each of which depends on a key of the set: a cycle, a
\* workflow that invokes itself included.
HasCycle(graph) ==
    \E S \in SUBSET Keys(graph) :
        /\ S # {}
        /\ \A k \in S : DepsOf(graph, k) \cap S # {}

InSetDeps(graph, id) == DepsOf(graph, id) \cap Keys(graph)

LedgerIds(l, u, t) == IF u \in DOMAIN l THEN DictKeys(l[u][t]) ELSE {}

Tracked == {"workflows", "credentials"}

\* The requests of one kind among those of a handler call.
Issued(reqs, method, type) ==
    {reqs[i] : i \in {j \in 1..Len(reqs) :
                        reqs[j].method = method /\ reqs[j].type = type}}

InCleanup == pc \in {"credentials", "workflows"}

(***************************************************************************)
(* The order resolver.                                                     *)
(***************************************************************************)

\* C1: for an acyclic dependency graph get_workflow_order returns a
\* sequence in which every dependency that is a key of the graph stands
\* before each workflow that depends on it.
C1_DependenciesFirst ==
    LET \* b stands before a in the sequence.
        Before(order, b, a) ==
            \E i, j \in 1..Len(order) : i < j /\ order[i] = b /\ order[j] = a
    IN
    (pc = "ordered" /\ ~HasCycle(dependency_graph)) =>
        /\ "order" \in DOMAIN order_result
        /\ \A a \in Keys(dependency_graph) :
              \A b \in InSetDeps(dependency_graph, a) :
                 Before(order_result.order, b, a)

C1_ChainReversed ==
    /\ pc = "ordered"
    /\ ~HasCycle(dependency_graph)
    /\ KeySeq(dependency_graph) = << "W1", "W2", "W3" >>
    /\ "W2" \in InSetDeps(dependency_graph, "W1")
    /\ "W3" \in InSetDeps(dependency_graph, "W2")
    /\ "X9" \in DepsOf(dependency_graph, "W1")
    /\ order_result = Returned(<< "W3", "W2", "W1" >>)

\* C2: when the graph has a cycle among its keys, a workflow that invokes
\* itself included, get_workflow_order raises the circular-dependency
\* failure and returns no order, partial or otherwise.
C2_CycleRaises ==
    (pc = "ordered" /\ HasCycle(dependency_graph)) =>
        order_result = CircularDependency

C2_CycleBesideReady ==
    /\ pc = "ordered"
    /\ HasCycle(dependency_graph)
    /\ Len(dependency_graph) = 3
    /\ InSetDeps(dependency_graph, "W1") = {}
    /\ "W2" \in InSetDeps(dependency_graph, "W3")
    /\ "W3" \in InSetDeps(dependency_graph, "W2")
    /\ order_result = CircularDependency


\* The peeling round of a key of an acyclic graph: one more than the latest
\* round of its dependencies among the keys.
RECURSIVE RoundOf(_, _)
RoundOf(graph, id) ==
    LET rounds == {RoundOf(graph, d) : d \in InSetDeps(graph, id)}
    IN  IF rounds = {} THEN 1
        ELSE 1 + CHOOSE r \in rounds : \A q \in rounds : q <= r

\* C20: the order get_workflow_order returns is the concatenation of the
\* peeling rounds, each in the insertion order of the graph: every key
\* appears once, sorted by round and, within a round, by discovery.
C20_RoundsInDiscoveryOrder ==
    LET \* The place of a key in the insertion order of the graph.
        Discovery(graph, id) == CHOOSE i \in 1..Len(graph) : graph[i].id = id
    IN
    (pc = "ordered" /\ ~HasCycle(dependency_graph)) =>
        /\ "order" \in DOMAIN order_result
        /\ Len(order_result.order) = Len(dependency_graph)
        /\ Range(order_result.order) = Keys(dependency_graph)
        /\ \A i, j \in 1..Len(order_result.order) :
              i < j =>
                 LET a == order_result.order[i]
                     b == order_result.order[j]
                 IN  \/ RoundOf(dependency_graph, a) < RoundOf(dependency_graph, b)
                     \/ /\ RoundOf(dependency_graph, a) = RoundOf(dependency_graph, b)
                        /\ Discovery(dependency_graph, a) < Discovery(dependency_graph, b)

C20_TieInSecondRound ==
    /\ pc = "ordered"
    /\ KeySeq(dependency_graph) = << "W1", "W2", "W3" >>
    /\ InSetDeps(dependency_graph, "W1") = {"W3"}
    /\ InSetDeps(dependency_graph, "W2") = {}
    /\ InSetDeps(dependency_graph, "W3") = {}
    /\ order_result = Returned(<< "W2", "W3", "W1" >>)

(***************************************************************************)
(* Restore.                                                                *)
(***************************************************************************)

\* C3: a workflow is submitted to the target only once every one of its
\* dependencies that is in the restore set has a new identifier recorded
\* in the workflow mapping.
C3_SubmittedAfterDependencies ==
    [][\A req \in Issued(requests', "POST", "workflows") :
          InSetDeps(dependency_graph, req.source) \subseteq DOMAIN workflow_mapping]_vars

C5_LedgerWritesFollowSuccess ==
    [][
    LET ServerOfUrl(u) == Servers[CHOOSE n \in ServerNames : Servers[n].url = u]
    IN
       \A u \in Urls : \A t \in Tracked :
          \A id \in LedgerIds(ledger', u, t) \ LedgerIds(ledger, u, t) :
             /\ \E req \in Issued(requests', "POST", t) :
                   req.url = u /\ req.id = id /\ Is2xx(req.status)
             /\ (t = "workflows" /\ ServerOfUrl(u).supports_projects) =>
                   \E req \in Issued(requests', "PUT", t) :
                      req.url = u /\ req.id = id /\ Is2xx(req.status)
             /\ \A req \in Issued(requests', "DELETE", t) : req.id # id]_vars

C5_WrittenBesideFailure ==
    /\ pc = "restore_workflows"
    /\ supports_projects
    /\ stats.workflows_failed > 0
    /\ stats.credentials_failed > 0
    /\ \E req \in Issued(requests, "PUT", "workflows") :
          req.id \in LedgerIds(ledger, base_url, "workflows")
    /\ LedgerIds(ledger, base_url, "credentials") # {}

(***************************************************************************)
(* Cleanup.                                                                *)
(***************************************************************************)

\* C6: an identifier leaves the ledger only in a step whose delete request
\* for it was answered with a 2xx status, and a delete answered otherwise
\* leaves the entry in the ledger.
C6_LedgerRemovalsFollowSuccess ==
    [][\A u \in Urls : \A t \in ResourceTypes :
          /\ \A id \in LedgerIds(ledger, u, t) \ LedgerIds(ledger', u, t) :
                \E req \in Issued(requests', "DELETE", t) :
                   req.url = u /\ req.id = id /\ Is2xx(req.status)
          /\ \A req \in Issued(requests', "DELETE", t) :
                (req.url = u /\ ~Is2xx(req.status)) =>
                   (req.id \in LedgerIds(ledger, u, t) <=>
                    req.id \in LedgerIds(ledger', u, t))]_vars

C6_RemovedBesideKept ==
    /\ pc = "workflows"
    /\ stats.credentials_deleted > 0
    /\ stats.credentials_failed > 0
    /\ \E i \in 1..Len(resources.credentials) :
          resources.credentials[i].id \notin LedgerIds(ledger, base_url, "credentials")
    /\ \E req \in Issued(requests, "DELETE", "workflows") :
          /\ ~Is2xx(req.status)
          /\ req.id \in LedgerIds(ledger, base_url, "workflows")

C8_WorkflowsBeforeCredentials ==
    [][InCleanup =>
          /\ Issued(requests', "DELETE", "credentials") # {} =>
                stats.workflows_deleted + stats.workflows_failed
                   = Len(resources.workflows)
          /\ Issued(requests', "DELETE", "projects") # {} =>
                /\ stats.workflows_deleted + stats.workflows_failed
                      = Len(resources.workflows)
                /\ stats.credentials_deleted + stats.credentials_failed
                      = Len(resources.credentials)]_vars

\* C8, as the code has it: the tracked credentials are deleted first, then
\* the tracked workflows, then the project: no workflow is deleted before
\* every tracked credential has been handled, no credential after a
\* workflow, and the project after both.
C8_CredentialsBeforeWorkflows ==
    [][InCleanup =>
          /\ Issued(requests', "DELETE", "workflows") # {} =>
                stats.credentials_deleted + stats.credentials_failed
                   = Len(resources.credentials)
          /\ Issued(requests', "DELETE", "credentials") # {} =>
                stats.workflows_deleted + stats.workflows_failed = 0
          /\ Issued(requests', "DELETE", "projects") # {} =>
                /\ stats.workflows_deleted + stats.workflows_failed
                      = Len(resources.workflows)
                /\ stats.credentials_deleted + stats.credentials_failed
                      = Len(resources.credentials)]_vars

C8_BothLoopsRan ==
    /\ pc = "workflows"
    /\ Issued(requests, "DELETE", "workflows") # {}
    /\ stats.credentials_deleted + stats.credentials_failed > 0
    /\ stats.credentials_deleted + stats.credentials_failed
          = Len(resources.credentials)

(***************************************************************************)
(* Rollback and the tracking of what the tool made.                        *)
(***************************************************************************)

\* C9: when the transfer of a created workflow to the project fails, the
\* workflow is deleted from the target again and counted as failed, and
\* neither the ledger nor the workflow mapping records it.
C9_FailedTransferRolledBack ==
    [][\A put \in Issued(requests', "PUT", "workflows") :
          ~Is2xx(put.status) =>
             /\ \E del \in Issued(requests', "DELETE", "workflows") :
                   del.id = put.id
             /\ put.id \notin RemoteIds(remote', put.url, "workflows")
             /\ put.id \notin LedgerIds(ledger', put.url, "workflows")
             /\ workflow_mapping' = workflow_mapping
             /\ stats'.workflows_failed = stats.workflows_failed + 1]_vars

\* C10: between operations, every workflow and credential the tool made on
\* an instance and that is still there is tracked by the ledger entry of
\* that instance.
C10_ToolMadeTracked ==
    \A u \in Urls : \A t \in Tracked :
       \A id \in RemoteIds(remote, u, t) :
          id[1] > 0 => id \in LedgerIds(ledger, u, t)

(***************************************************************************)
(* The ledger store.                                                       *)
(***************************************************************************)

\* C11: when the process dies during a ledger call, every entry that was in
\* the ledger before the call (but the one the call is removing) is still
\* there to read.
C11_CrashKeepsHistory ==
    store.step = "crashed" =>
        \A u \in Urls : \A t \in ({"workflows", "credentials"}) :
           \A id \in LedgerIds(store.before, u, t) :
              \/ /\ store.call.op = "remove"
                 /\ << store.call.url, store.call.type, store.call.id >> = << u, t, id >>
              \/ id \in DictKeys(read_instance_resources(u)[t])

\* C15: what get_instance_resources lists for an instance was recorded with
\* the URL of that instance.
C15_ListedWasRecordedThere ==
    \A u \in Urls : \A t \in ResourceTypes :
       \A id \in DictKeys(read_instance_resources(u)[t]) :
          << u, t, id >> \in store.recorded

C15_SameIdElsewhere ==
    \E u \in Urls, v \in Urls, t \in ({"workflows", "credentials"}), id \in ({NewId(1, "W1"), NewId(1, "W2")}) :
       /\ u # v
       /\ store.step = "idle"
       /\ id \in DictKeys(read_instance_resources(u)[t])
       /\ id \notin DictKeys(read_instance_resources(v)[t])
       /\ << v, t, id >> \in store.recorded
       /\ DictKeys(read_instance_resources(v)[t]) # {}

\* C16: a remove_resource_mapping that returns leaves the listing of the
\* instance without the id under that type and every other entry of the
\* ledger as it was; when the id is not recorded nothing changes.
C16_RemoveOnlyThatEntry ==
    [][
    LET \* The content of one sub-map without one id.
        Without(d, id) == SelectSeq(d, LAMBDA e : e.id # id)
    IN
       (/\ store'.step = "idle"
        /\ store'.done.op = "remove"
        /\ store.step \in {"idle", "opened"}
        /\ ~store'.torn) =>
          LET call == store'.done
              was == IF store.step = "idle" THEN ledger ELSE store.before
          IN  /\ call.id \notin DictKeys(get_instance_resources(ledger', call.url)[call.type])
              /\ \A u \in Urls : \A t \in ResourceTypes :
                    get_instance_resources(ledger', u)[t] =
                       IF << u, t >> = << call.url, call.type >>
                       THEN Without(get_instance_resources(was, u)[t], call.id)
                       ELSE get_instance_resources(was, u)[t]
              /\ (call.id \notin LedgerIds(was, call.url, call.type)) => ledger' = was]_vars

C16_RemovedAmongOthers ==
    /\ store.step = "idle"
    /\ store.done.op = "remove"
    /\ ~store.torn
    /\ << store.done.url, store.done.type, store.done.id >> \in store.recorded
    /\ store.done.id \notin LedgerIds(ledger, store.done.url, store.done.type)
    /\ \E u \in Urls \ {store.done.url} :
          store.done.id \in LedgerIds(ledger, u, store.done.type)
    /\ LedgerIds(ledger, store.done.url, store.done.type) # {}

(***************************************************************************)
(* The rewrite of a workflow and the restore loops.                        *)
(***************************************************************************)

\* The entry of an ordered mapping under a key.
MappingKeys(m) == {m[i].key : i \in 1..Len(m)}

MappingId(m, key) == m[CHOOSE i \in 1..Len(m) : m[i].key = key].id

\* The node of the backup that a node of a posted payload was made from.
BackupNode(req, i) == WorkflowById(req.source).nodes[i]

\* C12: a node credential is resolved to the id of the credential-mapping
\* key that equals its declared name once the postfix is stripped and case
\* and underscore/space are disregarded ("My Postgres DB Prod" to the id of
\* "my_postgres_db").
C12_NormalizedNameResolves ==
    [][
    LET \* A name without its environment postfix, in lower case, and a key with
        \* its underscores read as spaces, in lower case.
        NormalName(name) ==
            LowerWords(IF Len(name) > 1 /\ name[Len(name)] \in (
                                                                {CredsConfig.environments[e].postfix : e \in Environments}
                                                                )
                       THEN SubSeq(name, 1, Len(name) - 1) ELSE name)
        NormalKey(key) ==
            IF Len(key) = 1 THEN LowerWords((
                                             CASE (key[1]) = "slack_token" -> << "slack", "token" >>
                                               [] (key[1]) = "slack_bot" -> << "slack", "bot" >>
                                               [] (key[1]) = "my_postgres_db" -> << "my", "postgres", "db" >>
                                               [] (key[1]) = "my_mysql" -> << "my", "mysql" >>
                                               [] OTHER -> << (key[1]) >>
                                             )) ELSE NormalName(key)
    IN
       \A req \in Issued(requests', "POST", "workflows") :
          \A i \in 1..Len(req.payload.nodes) :
             "credentials" \in DOMAIN BackupNode(req, i) =>
                \A k \in 1..Len(credential_mapping) :
                   NormalKey(credential_mapping[k].key)
                      = NormalName(BackupNode(req, i).credentials.name) =>
                         req.payload.nodes[i].credentials.id = credential_mapping[k].id]_vars

\* C13: when the credential declared as "Slack Token" was created, every
\* node that uses the credential "Slack Token" is submitted with the new id
\* of that credential.
C13_SlackTokenResolves ==
    [][\A req \in Issued(requests', "POST", "workflows") :
          \A i \in 1..Len(req.payload.nodes) :
             (/\ "credentials" \in DOMAIN BackupNode(req, i)
              /\ BackupNode(req, i).credentials.name = << "Slack", "Token" >>
              /\ <<"slack_token">> \in MappingKeys(credential_mapping)) =>
                 req.payload.nodes[i].credentials.id
                    = MappingId(credential_mapping, <<"slack_token">>)]_vars

C17_EveryItemAttempted ==
    [][/\ (pc = "restore_credentials" /\ idx <= Len(env_credentials)) =>
             /\ pc' = pc
             /\ idx' = idx + 1
             /\ Cardinality(Issued(requests', "POST", "credentials")) = 1
       /\ (pc = "restore_workflows" /\ idx <= Len(workflow_order)) =>
             /\ pc' = pc
             /\ idx' = idx + 1
             /\ \E req \in Issued(requests', "POST", "workflows") :
                   req.source = workflow_order[idx]]_vars

\* C18: perform_restore does not raise, whatever fails for single items,
\* workflow files without nodes or connections included.
C18_RestoreNeverRaises == pc # "raised"

(***************************************************************************)
(* The reading of the replies.                                             *)
(***************************************************************************)

\* C19: every 2xx status counts as success: a resource whose create (and
\* transfer, if any) was answered 2xx is in the ledger after the call, and
\* one whose delete was answered 2xx is no longer in it.
C19_Every2xxIsSuccess ==
    [][/\ \A t \in ({"workflows", "credentials"}) : \A req \in Issued(requests', "POST", t) :
             (/\ Is2xx(req.status)
              /\ \A put \in Issued(requests', "PUT", t) : Is2xx(put.status)) =>
                 req.id \in LedgerIds(ledger', req.url, t)
       /\ pc = "call_delete" =>
             \A t \in ({"workflows", "credentials"}) : \A req \in Issued(requests', "DELETE", t) :
                Is2xx(req.status) => req.id \notin LedgerIds(ledger', req.url, t)]_vars

(***************************************************************************)
(* The phases of a restore.                                                *)
(***************************************************************************)

\* C21: every credential of the target environment has been attempted
\* before the first workflow is submitted, no credential is attempted after
\* it, and the credential mapping a workflow is rewritten with holds every
\* credential of the run that was created.
C21_CredentialsBeforeWorkflows ==
    [][/\ Issued(requests', "POST", "workflows") # {} =>
             /\ pc = "restore_workflows"
             /\ stats.credentials_created + stats.credentials_failed
                   = Len(env_credentials)
             /\ \A k \in 1..Len(env_credentials) :
                   LET new_id == NewId(restores, env_credentials[k].key)
                   IN  new_id \in RemoteIds(remote, base_url, "credentials") =>
                          /\ env_credentials[k].key \in MappingKeys(credential_mapping)
                          /\ MappingId(credential_mapping, env_credentials[k].key) = new_id
       /\ Issued(requests', "POST", "credentials") # {} =>
             /\ pc = "restore_credentials"
             /\ stats.workflows_created + stats.workflows_failed = 0
             /\ workflow_mapping = EmptyMapping]_vars

C21_WorkflowAfterMixedCredentials ==
    /\ pc = "restore_workflows"
    /\ Issued(requests, "POST", "workflows") # {}
    /\ stats.credentials_created >= 1
    /\ stats.credentials_failed >= 1
    /\ Len(credential_mapping) >= 2

(***************************************************************************)
(* The confirmation of a cleanup.                                          *)
(***************************************************************************)

\* C22: a cleanup sends a DELETE or changes the ledger only when the
\* answer to its prompt was "yes" in any case of letters; after any other
\* answer it is cancelled, nothing is requested and the remote instances
\* and the ledger are as before.
C22_NothingWithoutYes ==
    [][/\ (\/ \E t \in ResourceTypes : Issued(requests', "DELETE", t) # {}
           \/ ledger' # ledger
           \/ remote' # remote) => confirm' \in {"yes", "YES"}
       /\ (pc = "menu" /\ confirm' \notin {"yes", "YES"}) =>
             /\ pc' = "menu"
             /\ outcome' = "Operation cancelled."
             /\ requests' = <<>>
             /\ remote' = remote
             /\ ledger' = ledger]_vars

C22_DeletedAfterCapitalYes ==
    /\ confirm = "YES"
    /\ InCleanup
    /\ \E req \in Issued(requests, "DELETE", "credentials") : req.status = 200

(***************************************************************************)
(* The rewrite of a workflow: settings and literals.                       *)
(***************************************************************************)

\* C23: each of saveExecutionProgress, saveManualExecutions,
\* saveDataErrorExecution, executionTimeout and errorWorkflow is submitted
\* with the value the workflow's settings give it, and with true, true,
\* 'all', 3600 and '' where they give none.
C23_SettingsFilledWhereAbsent ==
    [][\A req \in Issued(requests', "POST", "workflows") :
          LET given == (
                        IF "settings" \in DOMAIN (WorkflowById(req.source)) THEN (WorkflowById(req.source)).settings ELSE << >>
                        )
              sent == req.payload.settings
              Filled(field, default) ==
                 sent[field] = IF field \in DOMAIN given THEN given[field] ELSE default
          IN  /\ Filled("saveExecutionProgress", TRUE)
              /\ Filled("saveManualExecutions", TRUE)
              /\ Filled("saveDataErrorExecution", "all")
              /\ Filled("executionTimeout", 3600)
              /\ Filled("errorWorkflow", "")]_vars

C23_SomeGivenSomeFilled ==
    /\ pc = "restore_workflows"
    /\ \E req \in Issued(requests, "POST", "workflows") :
          /\ DOMAIN (
                     IF "settings" \in DOMAIN (WorkflowById(req.source)) THEN (WorkflowById(req.source)).settings ELSE << >>
                     )
                = {"executionTimeout", "errorWorkflow"}
          /\ req.payload.settings =
                [saveExecutionProgress |-> TRUE, saveManualExecutions |-> TRUE,
                 saveDataErrorExecution |-> "all", executionTimeout |-> 60,
                 errorWorkflow |-> "W9"]

\* C24: a text of the workflow that is not itself a source literal of the
\* replacement table is submitted as it is, also when a source literal is
\* a part of it.
C24_OnlyWholeValuesReplaced ==
    [][\A req \in Issued(requests', "POST", "workflows") :
          \A i \in 1..Len(req.payload.nodes) :
             LET table == get_environment_replacements(creds_config, target_env)
                 node == BackupNode(req, i)
             IN  (/\ "url" \in DOMAIN node
                  /\ ~ \E j \in 1..Len(table) : node.url = << table[j].old >>) =>
                    req.payload.nodes[i].url = node.url]_vars

(***************************************************************************)
(* The references of invoking nodes.                                       *)
(***************************************************************************)

\* C25: the dependency graph has an edge for every executeWorkflow and
\* every toolWorkflow node that names a workflow, as a string or as the
\* value of an object.
C25_EdgeForEveryReference ==
    pc = "restore_workflows" =>
       \A i \in 1..Len(workflows) :
          "nodes" \in DOMAIN workflows[i] =>
             \A j \in 1..Len(workflows[i].nodes) :
                (
                 IF /\ (workflows[i].nodes[j]).type \in {ExecuteWorkflow, ToolWorkflow}
                    /\ (workflows[i].nodes[j]).workflowId.kind \in {"str", "dict"}
                    /\ (workflows[i].nodes[j]).workflowId.value # ""
                 THEN {(workflows[i].nodes[j]).workflowId.value}
                 ELSE {}
                 )
                   \subseteq Range(dependency_graph[i].deps)

\* C26: dependencies that are no keys of the graph count as satisfied: the
\* result is the one of the graph without them, order or cycle error
\* alike, and a graph none of whose edges points to a key yields its keys
\* in their insertion order.
C26_OutsideDependenciesSatisfied ==
    LET \* The graph without the dependencies that are not among its keys.
        InSetOnly(graph) ==
            [i \in 1..Len(graph) |->
                [graph[i] EXCEPT !.deps = SelectSeq(@, LAMBDA d : d \in Keys(graph))]]
    IN
    pc = "ordered" =>
       /\ order_result = get_workflow_order(InSetOnly(dependency_graph))
       /\ (\A k \in Keys(dependency_graph) : InSetDeps(dependency_graph, k) = {}) =>
             order_result = Returned(KeySeq(dependency_graph))

C26_AllEdgesOutside ==
    /\ pc = "ordered"
    /\ KeySeq(dependency_graph) = << "W1", "W2", "W3" >>
    /\ \A i \in 1..3 : dependency_graph[i].deps = << "X9" >>
    /\ order_result = Returned(<< "W1", "W2", "W3" >>)

\* C27: an invoking node is submitted with the new identifier in place of
\* the old one, and in the object form with cachedResultName cut to its
\* first token, exactly when the old identifier is a key of the workflow
\* mapping; otherwise its workflowId is submitted as it was.
C27_RemappedExactlyWhenMapped ==
    [][
    LET \* Two identifiers are the same one.  The identifiers of a backup and the
        \* ones an instance gives are values of different kinds, which are told
        \* apart by their written form.
        SameId(a, b) == ToString(a) = ToString(b)
    IN
       \A req \in Issued(requests', "POST", "workflows") :
          \A i \in 1..Len(req.payload.nodes) :
             LET node == BackupNode(req, i)
                 sent == req.payload.nodes[i]
             IN  \A old \in (
                             IF /\ node.type \in {ExecuteWorkflow, ToolWorkflow}
                                /\ node.workflowId.kind \in {"str", "dict"}
                                /\ node.workflowId.value # ""
                             THEN {node.workflowId.value}
                             ELSE {}
                             ) :
                    IF old \in DOMAIN workflow_mapping
                    THEN /\ SameId(sent.workflowId.value, workflow_mapping[old])
                         /\ node.workflowId.kind = "dict" =>
                               sent.workflowId.cachedResultName
                                  = (
                                     IF (node.workflowId.cachedResultName) = <<>> THEN <<>> ELSE <<Head((node.workflowId.cachedResultName))>>
                                     )
                    ELSE /\ SameId(sent.workflowId.value, old)
                         /\ node.workflowId.kind = "dict" =>
                               sent.workflowId.cachedResultName
                                  = node.workflowId.cachedResultName]_vars

(***************************************************************************)
(* Backup.                                                                 *)
(***************************************************************************)

\* C28: a backup sends only GET requests, changes neither the instances
\* nor the ledger, and every file it writes holds the workflow exactly as
\* the instance has it.
C28_BackupIsSnapshot ==
    [][/\ \A i \in 1..Len(requests') : requests'[i].method = "GET"
       /\ remote' = remote
       /\ ledger' = ledger
       /\ \A f \in backup_files' \ backup_files :
             /\ f.server = server
             /\ f.content \in remote[base_url].workflows
             /\ f.file = << f.content.name, f.content.id >>]_vars

C28_SavedWhatNeededRewriting ==
    /\ pc = "backup_save"
    /\ \E f \in backup_files :
          /\ f.content = LiteralBackup[1]
          /\ "settings" \notin DOMAIN f.content
    /\ \E f \in backup_files : f.content = ToolBackup[2]
    /\ ledger # EmptyLedger

(***************************************************************************)
(* The iterations of main().                                               *)
(***************************************************************************)

\* C29: an operation starts only once a server is selected, the connection
\* test against it was answered 200 and a project is determined; a failed
\* connection test or a missing project leads back to the menu; and before
\* the operation main() sends nothing but GET requests and changes neither
\* the instances nor the ledger nor the backups.
C29_OperationAfterSelection ==
    [][
    LET \* Where main() stands outside an operation, and inside one.
        MainSteps == {"menu", "select_server", "test_connection", "select_project",
                      "dispatch", "exited"}
        OperationSteps == {"backup_save", "restore_credentials", "restore_workflows",
                           "credentials", "workflows"}
    IN
       /\ (pc \in MainSteps /\ pc' \in OperationSteps) =>
             /\ pc = "dispatch"
             /\ server \in ServerNames
             /\ supports_projects =>
                   project.id \in RemoteIds(remote, base_url, "projects")
             /\ ~supports_projects => project = NoProject
       /\ pc' = "dispatch" =>
             /\ pc = "select_project"
             /\ server' = server
       /\ pc' = "select_project" =>
             /\ pc = "test_connection"
             /\ server' = server
             /\ \E req \in Issued(requests', "GET", "workflows") : req.status = 200
       /\ (/\ pc = "test_connection"
           /\ \E req \in Issued(requests', "GET", "workflows") : req.status # 200) =>
             pc' = "menu"
       /\ (/\ pc = "select_project"
           /\ \E req \in Issued(requests', "GET", "projects") : req.status # 200) =>
             pc' = "menu"
       /\ (pc \in MainSteps /\ pc' \in MainSteps) =>
             /\ \A i \in 1..Len(requests') : requests'[i].method = "GET"
             /\ remote' = remote
             /\ ledger' = ledger
             /\ backup_files' = backup_files]_vars

C29_RestoreInLaterIteration ==
    /\ pc = "restore_workflows"
    /\ choice = "2"
    /\ \E req \in Issued(requests, "POST", "workflows") : req.status = 200
    /\ backup_files # {}
    /\ ledger # EmptyLedger

(***************************************************************************)
(* The mappings of a restore.                                              *)
(***************************************************************************)

\* C30: while a restore runs, an entry of the credential mapping or of the
\* workflow mapping, once written, keeps its value: no step changes or
\* removes it.
C30_MappingsAppendOnly ==
    [][((pc \in {"restore_credentials", "restore_workflows"}) /\ pc' \in {"restore_credentials", "restore_workflows", "raised"}) =>
          /\ \A k \in 1..Len(credential_mapping) :
                /\ k <= Len(credential_mapping')
                /\ credential_mapping'[k] = credential_mapping[k]
          /\ \A old \in DOMAIN workflow_mapping :
                /\ old \in DOMAIN workflow_mapping'
                /\ workflow_mapping'[old] = workflow_mapping[old]]_vars

(***************************************************************************)
(* The name of a created credential.                                       *)
(***************************************************************************)

\* C31: create_credential submits the declared name with one trailing
\* postfix of a configured environment removed and the target postfix
\* appended as a further word; with an empty target postfix it submits the
\* stripped name.
C31_PostfixReplaced ==
    pc = "named" =>
        LET declared == env_credentials[1].name
            last == declared[Len(declared)]
            stripped == IF Len(declared) > 1 /\ last \in {"Prod", "Dev"}
                        THEN SubSeq(declared, 1, Len(declared) - 1)
                        ELSE declared
            submitted == requests[1].payload.name
        IN  /\ Len(requests) = 1
            /\ requests[1].method = "POST" /\ requests[1].type = "credentials"
            /\ env_postfix = "" => submitted = stripped
            /\ env_postfix # "" => submitted = stripped \o <<env_postfix>>
            /\ requests[1].status = 200 =>
                  [id |-> requests[1].id, name |-> submitted]
                      \in remote[base_url].credentials

C31_ProdDeclaredForDev ==
    /\ pc = "named"
    /\ env_credentials[1].name = <<"Slack", "Token", "Prod">>
    /\ env_postfix = "Dev"
    /\ requests[1].payload.name = <<"Slack", "Token", "Dev">>

(***************************************************************************)
(* The creation order as a list.                                           *)
(***************************************************************************)

\* C32: on a graph without a cycle get_workflow_order returns, and what it
\* returns is a permutation of the keys of the graph: every key stands at
\* exactly one place and every place holds a key.
C32_OrderIsPermutation ==
    (pc = "ordered" /\ ~HasCycle(dependency_graph)) =>
        /\ DOMAIN order_result = {"order"}
        /\ \A k \in Keys(dependency_graph) :
              Cardinality({i \in 1..Len(order_result.order) : order_result.order[i] = k}) = 1
        /\ \A i \in 1..Len(order_result.order) :
              order_result.order[i] \in Keys(dependency_graph)

C32_OutsiderNamedTwice ==
    /\ pc = "ordered"
    /\ Len(dependency_graph) = 3
    /\ dependency_graph[1].deps = << "X9", "W3" >>
    /\ dependency_graph[2].deps = << "W1", "W1" >>
    /\ dependency_graph[3].deps = << "X9", "X9" >>
    /\ order_result = Returned(<< "W3", "W1", "W2" >>)

(***************************************************************************)
(* What a cleanup leaves in the ledger.                                    *)
(***************************************************************************)

C34_NoProjectTracked ==
    /\ \A u \in Urls : LedgerIds(ledger, u, "projects") = {}
    /\ resources.projects = <<>>
    /\ Issued(requests, "DELETE", "projects") = {}

C34_CleanupOfProjectInstance ==
    /\ pc = "workflows"
    /\ idx > Len(resources.workflows)
    /\ supports_projects
    /\ project.id # "None"
    /\ stats.workflows_deleted > 0
    /\ backup_files # {}

(***************************************************************************)
(* The counters of a restore.                                              *)
(***************************************************************************)

\* C35: when a restore prints its final report, every workflow of the
\* creation order has been counted as created or as failed, every
\* credential declared for the target environment as created or as failed,
\* and the workflow mapping has one entry for each workflow counted as
\* created.
C35_CountersAddUp ==
    [][(pc = "restore_workflows" /\ outcome' = "Restore Complete") =>
          /\ stats.workflows_created + stats.workflows_failed = Len(order_result.order)
          /\ stats.credentials_created + stats.credentials_failed
                = Len(creds_config.environments[target_env].credentials)
          /\ stats.workflows_created = Cardinality(DOMAIN workflow_mapping)]_vars

C35_ReportWithFailures ==
    /\ pc = "restore_workflows"
    /\ idx > Len(order_result.order)
    /\ stats.workflows_created > 0 /\ stats.workflows_failed > 0
    /\ stats.credentials_created > 0 /\ stats.credentials_failed > 0

(***************************************************************************)
(* The caller's workflow definition.                                       *)
(***************************************************************************)

\* C36: a call of create_workflow leaves the workflow definition it was
\* given as it was: the workflows loaded from the backup are the same after
\* every iteration of the workflow loop as before it, also when the
\* replacements could not be loaded or applied.
C36_DefinitionUntouched ==
    [][(pc = "restore_workflows" /\ idx <= Len(order_result.order)) =>
          ToString(workflows') = ToString(workflows)]_vars

(***************************************************************************)
(* The settings that reach the target.                                     *)
(***************************************************************************)

\* C37: the settings of every submitted workflow have the keys
\* saveExecutionProgress, saveManualExecutions, saveDataErrorExecution,
\* executionTimeout and errorWorkflow and no other: a further key of the
\* workflow's own settings is not submitted.
C37_FiveSettingsKeys ==
    \A req \in Issued(requests, "POST", "workflows") :
       DOMAIN req.payload.settings =
          {"saveExecutionProgress", "saveManualExecutions", "saveDataErrorExecution",
           "executionTimeout", "errorWorkflow"}

C37_TimezoneLeftBehind ==
    /\ pc = "restore_workflows"
    /\ \E req \in Issued(requests, "POST", "workflows") :
          /\ "settings" \in DOMAIN WorkflowById(req.source)
          /\ "timezone" \in DOMAIN WorkflowById(req.source).settings
          /\ "timezone" \notin DOMAIN req.payload.settings
          /\ req.payload.settings.executionTimeout = 60

=============================================================================
